---- MODULE Spec2Model ----
(***************************************************************************)
(* The asynchronous cursor of the Firebolt driver (firebolt.async_db):     *)
(* statement submission, error classification, session SET parameters,     *)
(* multi-statement row-sets and the fetch operations, as a state machine   *)
(* whose steps are the code segments between two suspension points.        *)
(***************************************************************************)
EXTENDS Integers, Sequences, FiniteSets, TLC

\* ---------------------------------------------------------------- bounds
\* concurrent callers (tasks) sharing one cursor
NTasks == 2
\* statements in one query text
MaxStmts == 2
\* rows the server returns for one SELECT
MaxRows == 2
\* execute/executemany calls in one behaviour
MaxCalls == 2
\* probe requests the classifier's probes issue for one statement
MaxProbes == 2
\* cursors created on the connection (the cursor modelled in full is cursor 1)
MaxCursors == 3

Tasks == 1..NTasks

\* ------------------------------------------------------- program constants
INTERNAL_SERVER_ERROR == 500
FORBIDDEN == 403
SERVICE_UNAVAILABLE == 503
NOT_FOUND == 404
BAD_REQUEST == 400
HTTP_OK == 200
\* the statuses the server answers with (400 is one the classifier has no rule
\* of its own for: raise_for_status raises)
Statuses ==
    {HTTP_OK, BAD_REQUEST, FORBIDDEN, NOT_FOUND, INTERNAL_SERVER_ERROR,
     SERVICE_UNAVAILABLE}

JSON_OUTPUT_FORMAT == "JSON_Compact"
ENGINE_STATUS_RUNNING == "Running"

\* ------------------------------------------------------------- statements
\* A statement of a query text: literal SQL to send (the answer's body tells
\* whether it had row data), or a SET directive (name, value).
SetNames == {"time_zone", "async_execution"}
SetDirectives ==
    {<<"time_zone", "1">>, <<"time_zone", "2">>, <<"async_execution", "1">>}
Literal == [kind |-> "sql", name |-> "", value |-> "", text |-> "sql"]
SetParameter(n, v) == [kind |-> "set", name |-> n, value |-> v, text |-> ""]
Statements ==
    {Literal} \cup {SetParameter(d[1], d[2]) : d \in SetDirectives}

RECURSIVE SeqsUpTo(_, _)
SeqsUpTo(S, n) ==
    IF n = 0 THEN {<< >>}
    ELSE LET shorter == SeqsUpTo(S, n - 1)
         IN  shorter \cup {Append(q, s) : q \in {r \in shorter : Len(r) = n - 1}, s \in S}

\* the query texts a caller passes: 1..MaxStmts statements
QueryTexts == SeqsUpTo(Statements, MaxStmts) \ {<< >>}

\* split_format_sql(raw_query, parameters): the statements of the text in
\* document order, once per parameter set (set-major, statement-minor); a text
\* with no parameter set is formatted once.
RECURSIVE Repeat(_, _)
Repeat(q, n) == IF n = 0 THEN << >> ELSE q \o Repeat(q, n - 1)
split_format_sql(raw_query, nsets) ==
    IF nsets = 0 THEN raw_query ELSE Repeat(raw_query, nsets)

\* the text of a query: its statements as written, separated by ";"
StatementText(q) ==
    IF q.kind = "set" THEN "SET " \o q.name \o " = " \o q.value ELSE q.text
RECURSIVE QueryText(_)
QueryText(raw_query) ==
    IF Len(raw_query) = 1 THEN StatementText(raw_query[1])
    ELSE StatementText(raw_query[1]) \o "; " \o QueryText(Tail(raw_query))

\* [raw_query]: the whole text as one literal statement
Verbatim(raw_query) ==
    [kind |-> "sql", name |-> "", value |-> "", text |-> QueryText(raw_query)]

\* variant: the text is split whatever skip_parsing says
statements_AlwaysSplit(raw_query, nsets, skip_parsing) ==
    split_format_sql(raw_query, nsets)

\* queries of _do_execute: [raw_query] if skip_parsing else
\* split_format_sql(raw_query, parameters)
statements(raw_query, nsets, skip_parsing) ==
    IF skip_parsing THEN <<Verbatim(raw_query)>> ELSE split_format_sql(raw_query, nsets)

\* ---------------------------------------------------------------- row sets
\* RowSet of one statement.  has_columns = FALSE stands for columns = None and
\* rows = None (the rows field is then the empty sequence and never read).
\* stmt names the statement the RowSet answers: <<call, position>>.
\* A row is <<call, position of the statement, row number>>.
NoDataRowSet(c, p) ==
    [stmt |-> <<c, p>>, rowcount |-> -1, has_columns |-> FALSE, rows |-> << >>]
DataRowSet(c, p, n) ==
    [stmt |-> <<c, p>>, rowcount |-> n, has_columns |-> TRUE,
     rows |-> [k \in 1..n |-> <<c, p, k>>]]

\* _row_set_from_response(resp): the body of a 2xx answer decoded.
\* body = -1: no columns/rows in the body (DDL/DML); body = n >= 0: n rows.
row_set_from_response(c, p, body) ==
    IF body < 0 THEN NoDataRowSet(c, p) ELSE DataRowSet(c, p, body)

\* ---------------------------------------------------------------- dicts
EmptyDict == [k \in {} |-> ""]
\* {**f, **g}: the keys of both, g's value where both have the key
Merge(f, g) ==
    [k \in (DOMAIN f) \cup (DOMAIN g) |-> IF k \in DOMAIN g THEN g[k] ELSE f[k]]
Single(k, v) == [x \in {k} |-> v]

\* ------------------------------------------------------------------ state
VARIABLES
    connection,      \* the cursor's connection: database configured?, system engine?,
                     \* database configured on its system-engine connection?
    state,           \* Cursor._state: "NONE", "DONE", "ERROR"
    row_sets,        \* Cursor._row_sets: one RowSet per executed statement
    next_set_idx,    \* Cursor._next_set_idx: the current RowSet is row_sets[next_set_idx]
    idx,             \* Cursor._idx: rows of the current RowSet already fetched
    query_id,        \* Cursor._query_id: id of the last server-side async query ("" if none)
    set_parameters,  \* Cursor._set_parameters: validated SET name -> value
    readers,         \* Cursor._async_query_lock: tasks holding the read lock
    tasks,           \* per caller: where its coroutine is suspended and the frame of
                     \* its execute (queries, position, session map at entry, the
                     \* POSTs issued so far, the query text of a call that skips
                     \* parsing; while _api_request awaits the account id, the
                     \* request it has built and where it goes on, and the body
                     \* of the answer to an async submission);
                     \* once the call has returned or raised,
                     \* what the caller is left with (outcome, failing position,
                     \* number of statements and of POSTs)
    last_fetch,      \* what the last finished fetch/nextset call returned (since the
                     \* last execute began)
    delivered,       \* the rows fetch calls have returned from the current RowSet,
                     \* in the order the calls took them
    ncalls,          \* execute/executemany calls started so far
    closed,          \* per cursor created on the connection: has it been closed?
                     \* (cursor 1 is the cursor whose state the variables above hold)
    cursors,         \* BaseConnection._cursors: the registry, a list of cursors
    is_closed,       \* BaseConnection._is_closed
    last_call,       \* the last call of a connection operation: the cursor it was
                     \* given, what it returned or raised
    lookup,          \* the resolver call in progress or last finished: the request
                     \* it made, the answer, what it returned or raised
    probe_cursors    \* the cursors the probes and the resolver have opened, as they
                     \* stand in the registry of the connection they were opened on

vars ==
    <<connection, state, row_sets, next_set_idx, idx, query_id, set_parameters,
      readers, tasks, last_fetch, delivered, ncalls,
      closed, cursors, is_closed, last_call, lookup, probe_cursors>>

fetch_vars == <<last_fetch, delivered>>

cursor_vars == <<row_sets, next_set_idx, idx, query_id, set_parameters>>

\* the connection and the lifecycle flags: what the operations of an open
\* cursor never write
connection_vars == <<connection, closed, cursors, is_closed, last_call, lookup>>

DatabaseName == "db"
AccountId == "acc"

NoFetch == [op |-> "", size |-> 0, result |-> "", rows |-> << >>]

\* a get_status / cancel call: the POSTs it issued, the status and body of the
\* answer, what it returned or raised
NoApi == [op |-> "", posts |-> 0, status |-> 0, body |-> "", result |-> ""]

\* a call of a connection operation: the cursor it was given, the requests it
\* made, what it returned or raised
NoCall == [op |-> "", cursor |-> 0, requests |-> 0, result |-> ""]

\* a resolver call: where it is suspended (and where it goes on once the
\* account id is there), the requests it made, how many database probes of
\* the error classifier it started, the status and the rows
\* (or the body) of the answer to its own query, what it returned or raised
\* and, for a returned row, its values
NoLookup ==
    [op |-> "", pc |-> "idle", resume |-> "", requests |-> 0, probes |-> 0, status |-> 0,
     columns |-> FALSE, rows |-> << >>, body |-> "", result |-> "", value |-> << >>]

\* the cursor modelled in full
Self == 1

IdleTask ==
    [pc |-> "idle", call |-> 0, queries |-> << >>, nstmts |-> 0, pos |-> 0,
     async_execution |-> FALSE, skip_parsing |-> FALSE, verbatim |-> "",
     sp0 |-> EmptyDict, sent |-> << >>, posts |-> 0,
     status |-> 0, probes |-> 0, probe |-> "", origin |-> "",
     op |-> "", size |-> 0, outcome |-> "",
     probe_body |-> -1, engine_status |-> "",
     resume |-> "", pending |-> << >>, async_body |-> "none",
     api |-> NoApi]

\* Cursor.__init__ / BaseCursor.__init__: a fresh open cursor on a connection
Init ==
    /\ connection \in {c \in [database : BOOLEAN, is_system : BOOLEAN,
                               system_database : BOOLEAN] :
                            c.is_system => c.system_database = c.database}
    /\ state = "NONE"
    /\ row_sets = << >>
    /\ next_set_idx = 0
    /\ idx = 0
    /\ query_id = ""
    /\ set_parameters = EmptyDict
    /\ readers = 0
    /\ tasks = [t \in Tasks |-> IdleTask]
    /\ last_fetch = NoFetch
    /\ delivered = << >>
    /\ ncalls = 0
    /\ closed = [c \in {Self} |-> FALSE]
    /\ cursors = <<Self>>
    /\ is_closed = FALSE
    /\ last_call = NoCall
    /\ lookup = NoLookup
    /\ probe_cursors = << >>

\* ------------------------------------------------------------ _api_request
\* (A definition named X_Variant is a faulty variant of the definition X that
\* follows it; a property of X is expected to fail for it.)
\* variant: the session SET parameters are left out of the request
ApiParams_IgnoresSession(sp, parameters, use_set_parameters) ==
    LET withdb == IF connection.database
                  THEN Merge(parameters, Single("database", DatabaseName))
                  ELSE parameters
    IN  IF connection.is_system
        THEN Merge(withdb, Single("account_id", AccountId))
        ELSE withdb

\* variant: the session parameters are laid over the explicit ones
ApiParams_SessionWins(sp, parameters, use_set_parameters) ==
    LET merged == IF use_set_parameters THEN Merge(parameters, sp) ELSE parameters
        withdb == IF connection.database
                  THEN Merge(merged, Single("database", DatabaseName))
                  ELSE merged
    IN  IF connection.is_system
        THEN Merge(withdb, Single("account_id", AccountId))
        ELSE withdb

\* The params of one POST: the session SET parameters under the explicit ones,
\* then database and account_id from the connection.
ApiParams(sp, parameters, use_set_parameters) ==
    LET merged == IF use_set_parameters THEN Merge(sp, parameters) ELSE parameters
        withdb == IF connection.database
                  THEN Merge(merged, Single("database", DatabaseName))
                  ELSE merged
    IN  IF connection.is_system
        THEN Merge(withdb, Single("account_id", AccountId))
        ELSE withdb

Request(c, p, path, query, params) ==
    [call |-> c, pos |-> p, path |-> path, query |-> query, params |-> params]

\* the POST _do_execute / _validate_set_parameter issue for statement q
StatementRequest(tk, p, sp) ==
    LET q == tk.queries[p] IN
    IF q.kind = "set"
    THEN Request(tk.call, p, "", "select 1", ApiParams(sp, Single(q.name, q.value), TRUE))
    ELSE IF tk.async_execution
    THEN Request(tk.call, p, "", q.text,
                 ApiParams(sp, [k \in {"async_execution", "advanced_mode", "output_format"} |->
                                    IF k = "output_format" THEN JSON_OUTPUT_FORMAT ELSE "1"],
                           TRUE))
    ELSE Request(tk.call, p, "", q.text,
                 ApiParams(sp, Single("output_format", JSON_OUTPUT_FORMAT), TRUE))

\* where the coroutine is suspended after sending the POST for statement q
AwaitFor(tk, q) ==
    IF q.kind = "set" THEN "validate_set"
    ELSE IF tk.async_execution THEN "async_query"
    ELSE "query"

\* _api_request of the cursor, frame tk, up to its first suspension point.
\* The request is built from the session parameters as they are now; on a
\* system-engine connection the coroutine then awaits the client's account
\* id (request holds what is POSTed once the id is there), else the POST is
\* sent and the coroutine is suspended in it, at pc.
api_request(tk, request, pc) ==
    IF connection.is_system
    THEN [tk EXCEPT !.pc = "account_id", !.resume = pc, !.pending = <<request>>]
    ELSE [tk EXCEPT !.pc = pc, !.sent = Append(@, request), !.posts = @ + 1]

\* --------------------------------------------------------- _raise_if_error
\* variant: a 403 is never probed
classify_403NeverProbes(conn, status) ==
    IF status = INTERNAL_SERVER_ERROR THEN "OperationalError"
    ELSE IF status = FORBIDDEN THEN "ProgrammingError"
    ELSE IF status = SERVICE_UNAVAILABLE \/ status = NOT_FOUND
    THEN IF conn.is_system THEN "HTTPStatusError" ELSE "is_engine_running"
    ELSE IF status = HTTP_OK THEN "pass"
    ELSE "HTTPStatusError"

\* variant: a 404 is not probed
classify_404NotProbed(conn, status) ==
    IF status = INTERNAL_SERVER_ERROR THEN "OperationalError"
    ELSE IF status = FORBIDDEN
    THEN IF conn.database THEN "is_db_available" ELSE "ProgrammingError"
    ELSE IF status = SERVICE_UNAVAILABLE
    THEN IF conn.is_system THEN "HTTPStatusError" ELSE "is_engine_running"
    ELSE IF status = HTTP_OK THEN "pass"
    ELSE "HTTPStatusError"

\* variant: a 500 has no rule of its own
classify_500Unruled(conn, status) ==
    IF status = FORBIDDEN
    THEN IF conn.database THEN "is_db_available" ELSE "ProgrammingError"
    ELSE IF status = SERVICE_UNAVAILABLE \/ status = NOT_FOUND
    THEN IF conn.is_system THEN "HTTPStatusError" ELSE "is_engine_running"
    ELSE IF status = HTTP_OK THEN "pass"
    ELSE "HTTPStatusError"

\* What _raise_if_error of a cursor on connection conn does with an answer of
\* the given status: "pass", the error it raises at once, or the probe it
\* awaits first.
classify(conn, status) ==
    IF status = INTERNAL_SERVER_ERROR THEN "OperationalError"
    ELSE IF status = FORBIDDEN
    THEN IF conn.database THEN "is_db_available" ELSE "ProgrammingError"
    ELSE IF status = SERVICE_UNAVAILABLE \/ status = NOT_FOUND
    THEN IF conn.is_system THEN "HTTPStatusError" ELSE "is_engine_running"
    ELSE IF status = HTTP_OK THEN "pass"
    ELSE "HTTPStatusError"

raise_if_error(status) == classify(connection, status)

\* variant: the status is compared whatever its case
is_running_IgnoresCase(engine_status) ==
    engine_status \in {"Running", "running", "RUNNING"}

\* status == ENGINE_STATUS_RUNNING
is_running(engine_status) == engine_status = ENGINE_STATUS_RUNNING

\* connection._system_engine_connection or connection: the connection whose
\* cursor runs the probes' control-plane queries
ProbeConnection ==
    [database |-> connection.system_database, is_system |-> TRUE,
     system_database |-> connection.system_database]

IsProbe(c) == c \in {"is_db_available", "is_engine_running"}

\* ---------------------------------------------------------------- registry
\* list.remove(cursor) of _remove_cursor: the list without the first entry
\* equal to c (the list itself when there is none)
RECURSIVE remove(_, _)
remove(list, c) ==
    IF list = << >> THEN << >>
    ELSE IF Head(list) = c THEN Tail(list)
    ELSE <<Head(list)>> \o remove(Tail(list), c)

Contains(list, c) == \E i \in 1..Len(list) : list[i] = c

\* variant: the first entry is removed, whichever cursor it is
remove_cursor_Pops(list, c) == IF list = << >> THEN list ELSE Tail(list)

\* BaseConnection._remove_cursor(cursor): list.remove, its ValueError dropped
remove_cursor(list, c) == IF Contains(list, c) THEN remove(list, c) ELSE list

\* the with blocks of the n probes open in task t are left, innermost first:
\* each closes its cursor, which leaves the registry
RECURSIVE release(_, _, _)
release(list, t, n) ==
    IF n = 0 THEN list ELSE release(remove_cursor(list, <<t, n>>), t, n - 1)

\* variant: the cursor of a probe that raised stays in the registry
exit_probes_OnReturnOnly(list, t, tk) ==
    IF tk.probe = "raised" THEN list ELSE release(list, t, tk.probes)

\* with system_engine.cursor() as cursor: the block is left when the probe
\* returns and when it raises
exit_probes(list, t, tk) == release(list, t, tk.probes)

\* ------------------------------------------------------------- BaseCursor
\* _reset(): state NONE, no row-sets, offset 0, no query id.  The session SET
\* parameters are not part of it.
reset_row_sets == << >>
reset_state == "NONE"

\* _append_row_set(row_set): append; the first RowSet becomes the current one
append_row_sets(rs, row_set) == Append(rs, row_set)
append_next_set_idx(nsi) == IF nsi = 0 THEN 1 ELSE nsi
append_idx(nsi, i) == IF nsi = 0 THEN 0 ELSE i

\* the current RowSet (the one rowcount/description/fetch read)
HasCurrent == next_set_idx >= 1 /\ next_set_idx <= Len(row_sets)
CurrentRowSet == IF HasCurrent THEN row_sets[next_set_idx] ELSE NoDataRowSet(0, 0)
rowcount == CurrentRowSet.rowcount
description_is_null == ~CurrentRowSet.has_columns

\* ------------------------------------------------------------- _do_execute
\* the call is over: its frame is gone, the caller has the outcome
Returned(tk, p, outcome) ==
    [tk EXCEPT !.pc = "idle", !.pos = p, !.outcome = outcome,
               !.origin = IF outcome = "ok" THEN ""
                          ELSE IF tk.probe = "raised" THEN "probe" ELSE "cursor",
               !.queries = << >>, !.sent = << >>,
               !.resume = "", !.pending = << >>]

\* The except clause of _do_execute: state ERROR, the exception re-raised.
Raise(t, tk, p, err) ==
    /\ state' = "ERROR"
    /\ tasks' = [tasks EXCEPT ![t] = Returned(tk, p, err)]
    /\ probe_cursors' = exit_probes(probe_cursors, t, tk)

\* _validate_server_side_async_settings: an async submission has at most one
\* statement that is not a SET; FALSE when the check raises.
NonSet(q) == {i \in 1..Len(q) : q[i].kind # "set"}
validate_server_side_async_settings(queries, async_execution) ==
    ~async_execution \/ Cardinality(NonSet(queries)) <= 1

\* variant: SET async_execution is validated by a probe like any other SET
LoopFrom_ProbesAsyncSet(t, tk, p, sp, st) ==
    IF p > Len(tk.queries)
    THEN /\ state' = "DONE"
         /\ tasks' = [tasks EXCEPT ![t] = Returned(tk, p, "ok")]
         /\ UNCHANGED probe_cursors
    ELSE IF /\ tk.queries[p].kind # "set"
            /\ ~validate_server_side_async_settings(tk.queries, tk.async_execution)
    THEN Raise(t, tk, p, "AsyncExecutionUnavailableError")
    ELSE /\ state' = st
         /\ tasks' = [tasks EXCEPT ![t] =
                        api_request([tk EXCEPT !.pos = p], StatementRequest(tk, p, sp),
                                    AwaitFor(tk, tk.queries[p]))]
         /\ UNCHANGED probe_cursors

\* The for loop of _do_execute from the top of iteration p up to its next
\* suspension point, with session parameters sp and cursor state st:
\* the loop is over (state DONE), or statement p raises before any request
\* (SET async_execution, or an async submission the settings check rejects),
\* or _api_request is entered for statement p.
LoopFrom(t, tk, p, sp, st) ==
    IF p > Len(tk.queries)
    THEN /\ state' = "DONE"
         /\ tasks' = [tasks EXCEPT ![t] = Returned(tk, p, "ok")]
         /\ UNCHANGED probe_cursors
    ELSE IF tk.queries[p].kind = "set" /\ tk.queries[p].name = "async_execution"
    THEN Raise(t, tk, p, "AsyncExecutionUnavailableError")
    ELSE IF /\ tk.queries[p].kind # "set"
            /\ ~validate_server_side_async_settings(tk.queries, tk.async_execution)
    THEN Raise(t, tk, p, "AsyncExecutionUnavailableError")
    ELSE /\ state' = st
         /\ tasks' = [tasks EXCEPT ![t] =
                        api_request([tk EXCEPT !.pos = p], StatementRequest(tk, p, sp),
                                    AwaitFor(tk, tk.queries[p]))]
         /\ UNCHANGED probe_cursors

\* the answer with this status has arrived for the statement in flight
Answered(tk, status) == [tk EXCEPT !.status = status]

\* variant: a statement without row data leaves no RowSet
Succeed_SkipsSentinel(t, tk, row_set, sp, qid) ==
    /\ IF row_set.has_columns
       THEN /\ row_sets' = append_row_sets(row_sets, row_set)
            /\ next_set_idx' = append_next_set_idx(next_set_idx)
            /\ idx' = append_idx(next_set_idx, idx)
       ELSE UNCHANGED <<row_sets, next_set_idx, idx>>
    /\ set_parameters' = sp
    /\ query_id' = qid
    /\ LoopFrom(t, tk, tk.pos + 1, sp, state)

\* The statement in flight of task t (frame tk) succeeded with row_set:
\* _append_row_set, then on with the loop.
Succeed(t, tk, row_set, sp, qid) ==
    /\ row_sets' = append_row_sets(row_sets, row_set)
    /\ next_set_idx' = append_next_set_idx(next_set_idx)
    /\ idx' = append_idx(next_set_idx, idx)
    /\ set_parameters' = sp
    /\ query_id' = qid
    /\ LoopFrom(t, tk, tk.pos + 1, sp, state)

\* variant: a RowSet is appended for the statement that raised
Fail_AppendsRowSet(t, tk, err) ==
    /\ Raise(t, tk, tk.pos, err)
    /\ row_sets' = append_row_sets(row_sets, NoDataRowSet(tk.call, tk.pos))
    /\ UNCHANGED <<next_set_idx, idx, query_id, set_parameters>>

\* variant: the failure restores the session parameters the call started with
Fail_RollsBack(t, tk, err) ==
    /\ Raise(t, tk, tk.pos, err)
    /\ set_parameters' = tk.sp0
    /\ UNCHANGED <<row_sets, next_set_idx, idx, query_id>>

\* variant: the failure drops the session parameters
Fail_ClearsParameters(t, tk, err) ==
    /\ Raise(t, tk, tk.pos, err)
    /\ set_parameters' = EmptyDict
    /\ UNCHANGED <<row_sets, next_set_idx, idx, query_id>>

\* The statement in flight of task t (frame tk) raised err: nothing is
\* appended or committed, state ERROR.
Fail(t, tk, err) ==
    /\ Raise(t, tk, tk.pos, err)
    /\ UNCHANGED cursor_vars

\* the probe of the statement in flight has returned result or has raised
Probed(tk, result) == [tk EXCEPT !.probe = result]

\* the connection the probes open their cursors on has been closed: it is
\* the cursor's own connection when that is a system-engine one
ProbeConnectionClosed == connection.is_system /\ is_closed

\* _raise_if_error awaits a probe: the probe opens a cursor on its connection
\* and executes its control-plane query there.  That connection is a
\* system-engine one, so the coroutine is suspended in the account id lookup
\* of the probe cursor's _api_request, the POST of the query not sent yet.
\* On a closed connection cursor() raises and the probe with it.
AwaitProbe(t, tk, probe) ==
    IF ProbeConnectionClosed
    THEN Fail(t, Probed(tk, "raised"), "ConnectionClosedError")
    ELSE /\ tasks' = [tasks EXCEPT ![t] =
                        [tk EXCEPT !.pc = "account_id", !.resume = probe,
                                   !.probes = @ + 1]]
         /\ probe_cursors' = Append(probe_cursors, <<t, tk.probes + 1>>)
         /\ UNCHANGED <<state, cursor_vars>>


\* variant: the call on a closed cursor returns as if it had succeeded
check_not_closed_Returns(t) ==
    tasks' = [tasks EXCEPT ![t] =
                Returned([IdleTask EXCEPT !.call = tasks[t].call, !.api = tasks[t].api],
                         0, "ok")]

\* check_not_closed on execute / executemany of a closed cursor: the call
\* raises before _do_execute is entered
check_not_closed(t) ==
    tasks' = [tasks EXCEPT ![t] =
                Returned([IdleTask EXCEPT !.call = tasks[t].call, !.api = tasks[t].api],
                         0, "CursorClosedError")]

\* split_format_sql raises (DataError) when the bound values of a parameter
\* set do not match the placeholders of the text; with no parameter set
\* nothing is substituted, and with skip_parsing it is not called.
split_raises(nsets, mismatch) == nsets >= 1 /\ mismatch

\* execute(query, parameters, async_execution) / executemany(query,
\* parameters_seq, async_execution): check_not_closed, then _do_execute up to
\* its first suspension point.  nsets is the number of parameter sets.
\* _reset() and split_format_sql run before the try block: when the split
\* raises, the except clause is not reached.
DoExecute(t, raw_query, nsets, mismatch, skip_parsing, async_execution) ==
    /\ tasks[t].pc = "idle"
    /\ IF closed[Self]
       THEN /\ check_not_closed(t)
            /\ UNCHANGED <<state, row_sets, next_set_idx, idx, query_id, fetch_vars, ncalls,
                           probe_cursors>>
       ELSE /\ ncalls < MaxCalls
            /\ ncalls' = ncalls + 1
            /\ row_sets' = reset_row_sets
            /\ next_set_idx' = 0
            /\ idx' = 0
            /\ query_id' = ""
            /\ last_fetch' = NoFetch
            /\ delivered' = << >>
            /\ IF ~skip_parsing /\ split_raises(nsets, mismatch)
               THEN /\ state' = reset_state
                    /\ tasks' = [tasks EXCEPT ![t] =
                                    Returned([IdleTask EXCEPT !.call = ncalls + 1], 0, "DataError")]
                    /\ UNCHANGED probe_cursors
               ELSE LoopFrom(t,
                             [IdleTask EXCEPT !.call = ncalls + 1,
                                              !.queries = statements(raw_query, nsets, skip_parsing),
                                              !.nstmts = Len(statements(raw_query, nsets, skip_parsing)),
                                              !.sp0 = set_parameters,
                                              !.skip_parsing = skip_parsing,
                                              !.verbatim = IF skip_parsing
                                                           THEN QueryText(raw_query)
                                                           ELSE "",
                                              !.async_execution = async_execution],
                             1, set_parameters, reset_state)
    /\ UNCHANGED <<connection_vars, set_parameters, readers>>

\* ... with the text parsed (skip_parsing left at its default)
ExecuteStart(t, raw_query, nsets, mismatch, async_execution) ==
    DoExecute(t, raw_query, nsets, mismatch, FALSE, async_execution)

execute(t) ==
    \E raw_query \in QueryTexts, nsets \in {0, 1}, mismatch \in BOOLEAN,
       async_execution \in BOOLEAN :
        /\ mismatch => (nsets = 1 /\ raw_query = <<Literal>> /\ ~async_execution)
        /\ ExecuteStart(t, raw_query, nsets, mismatch, async_execution)

\* execute(query, parameters, skip_parsing=True, async_execution)
execute_skip_parsing(t) ==
    \E raw_query \in QueryTexts, nsets \in {0, 1}, mismatch \in BOOLEAN,
       async_execution \in BOOLEAN :
        /\ mismatch => nsets = 1
        /\ DoExecute(t, raw_query, nsets, mismatch, TRUE, async_execution)

executemany(t) ==
    \E raw_query \in QueryTexts, nsets \in 2..MaxStmts, async_execution \in BOOLEAN :
        /\ Len(raw_query) * nsets <= MaxStmts
        /\ ExecuteStart(t, raw_query, nsets, FALSE, async_execution)

\* what execute / executemany return once _do_execute has returned: the query
\* id for an async submission, else the row count
execute_result(t) == IF tasks[t].async_execution THEN query_id ELSE rowcount

\* the POST of the statement in flight, or of a probe's query, raises in the
\* transport
RequestRaises(t) ==
    /\ tasks[t].pc \in {"validate_set", "query", "async_query",
                        "is_db_available", "is_engine_running"}
    /\ Fail(t,
            IF IsProbe(tasks[t].pc) THEN Probed(tasks[t], "raised") ELSE tasks[t],
            "TransportError")
    /\ UNCHANGED <<connection_vars, readers, fetch_vars, ncalls>>

\* variant: the candidate is committed before the answer is looked at
ValidateSetResponse_CommitsFirst(t, status) ==
    LET tk == Answered(tasks[t], status)
        q == tk.queries[tk.pos]
        c == raise_if_error(status)
        sp == Merge(set_parameters, Single(q.name, q.value))
    IN  /\ tk.pc = "validate_set"
        /\ IF status = BAD_REQUEST \/ (c # "pass" /\ ~IsProbe(c))
           THEN /\ Raise(t, tk, tk.pos, IF status = BAD_REQUEST THEN "OperationalError" ELSE c)
                /\ set_parameters' = sp
                /\ UNCHANGED <<row_sets, next_set_idx, idx, query_id>>
           ELSE IF IsProbe(c) THEN AwaitProbe(t, tk, c)
           ELSE Succeed(t, tk, NoDataRowSet(tk.call, tk.pos), sp, query_id)
        /\ UNCHANGED <<connection_vars, readers, fetch_vars, ncalls>>

\* The answer to a SET validation probe arrives (_validate_set_parameter).
ValidateSetResponse(t, status) ==
    LET tk == Answered(tasks[t], status)
        q == tk.queries[tk.pos]
        c == raise_if_error(status)
    IN  /\ tk.pc = "validate_set"
        /\ IF status = BAD_REQUEST THEN Fail(t, tk, "OperationalError")
           ELSE IF IsProbe(c) THEN AwaitProbe(t, tk, c)
           ELSE IF c # "pass" THEN Fail(t, tk, c)
           ELSE Succeed(t, tk, NoDataRowSet(tk.call, tk.pos),
                        Merge(set_parameters, Single(q.name, q.value)), query_id)
        /\ UNCHANGED <<connection_vars, readers, fetch_vars, ncalls>>

\* variant: the body of a 400 answer is decoded like that of a 200
QueryResponse_Decodes400(t, status, body) ==
    LET tk == Answered(tasks[t], status)
        c == raise_if_error(status)
    IN  /\ tk.pc = "query"
        /\ IF IsProbe(c) THEN AwaitProbe(t, tk, c)
           ELSE IF c # "pass" /\ status # BAD_REQUEST THEN Fail(t, tk, c)
           ELSE IF body = -2 THEN Fail(t, tk, "DataError")
           ELSE Succeed(t, tk, row_set_from_response(tk.call, tk.pos, body),
                        set_parameters, query_id)
        /\ UNCHANGED <<connection_vars, readers, fetch_vars, ncalls>>

\* The answer to a statement's POST arrives (synchronous execution).
\* body: -2 a body that cannot be decoded, -1 no row data, n >= 0 rows.
QueryResponse(t, status, body) ==
    LET tk == Answered(tasks[t], status)
        c == raise_if_error(status)
    IN  /\ tk.pc = "query"
        /\ IF IsProbe(c) THEN AwaitProbe(t, tk, c)
           ELSE IF c # "pass" THEN Fail(t, tk, c)
           ELSE IF body = -2 THEN Fail(t, tk, "DataError")
           ELSE Succeed(t, tk, row_set_from_response(tk.call, tk.pos, body),
                        set_parameters, query_id)
        /\ UNCHANGED <<connection_vars, readers, fetch_vars, ncalls>>

\* variant: an empty query_id is accepted
AsyncResponse_AcceptsEmptyId(t, status, body) ==
    LET tk == [Answered(tasks[t], status) EXCEPT !.async_body = body]
        c == raise_if_error(status)
    IN  /\ tk.pc = "async_query"
        /\ IF IsProbe(c) THEN AwaitProbe(t, tk, c)
           ELSE IF c # "pass" THEN Fail(t, tk, c)
           ELSE IF body = "empty" THEN Fail(t, tk, "OperationalError")
           ELSE IF body = "not_json" THEN Fail(t, tk, "JSONDecodeError")
           ELSE IF body = "absent" THEN Fail(t, tk, "OperationalError")
           ELSE Succeed(t, tk, NoDataRowSet(tk.call, tk.pos), set_parameters, body)
        /\ UNCHANGED <<connection_vars, readers, fetch_vars, ncalls>>

\* The answer to a server-side async submission arrives.
\* body: "empty" content-length 0, "not_json" a body response.json() cannot
\* decode, else the query_id of the JSON body ("absent": no such key, "":
\* empty).  The frame keeps the body.
AsyncResponse(t, status, body) ==
    LET tk == [Answered(tasks[t], status) EXCEPT !.async_body = body]
        c == raise_if_error(status)
    IN  /\ tk.pc = "async_query"
        /\ IF IsProbe(c) THEN AwaitProbe(t, tk, c)
           ELSE IF c # "pass" THEN Fail(t, tk, c)
           ELSE IF body = "empty" THEN Fail(t, tk, "OperationalError")
           ELSE IF body = "not_json" THEN Fail(t, tk, "JSONDecodeError")
           ELSE IF body \in {"absent", ""} THEN Fail(t, tk, "OperationalError")
           ELSE Succeed(t, tk, NoDataRowSet(tk.call, tk.pos), set_parameters, body)
        /\ UNCHANGED <<connection_vars, readers, fetch_vars, ncalls>>

\* The probe's own cursor classifies the answer to the probe's query: a 403
\* on a connection with a database starts a further is_db_available, on the
\* same connection, inside the probe.
ProbeAgain(t) ==
    /\ ProbeConnectionClosed \/ tasks[t].probes < MaxProbes
    /\ AwaitProbe(t, tasks[t], "is_db_available")

\* The answer to the query of is_db_available arrives (the probe of a 403).
\* The probe is cursor.execute(...) > 0 on the probe connection: it raises
\* what that execute raises, else returns whether the row count is positive.
\* Inside a probe (probes > 1) the caller of is_db_available is the probe
\* cursor's _raise_if_error, so what it raises comes out of the probe.
DbProbeReturn(t, status, body) ==
    LET tk == tasks[t]
        c == classify(ProbeConnection, status)
        inner == tk.probes > 1
        exists == row_set_from_response(0, 0, body).rowcount > 0
    IN  /\ tk.pc = "is_db_available"
        /\ IF IsProbe(c) THEN ProbeAgain(t)
           ELSE IF c # "pass" THEN Fail(t, Probed(tk, "raised"), c)
           ELSE IF body = -2 THEN Fail(t, Probed(tk, "raised"), "DataError")
           ELSE Fail(t,
                     Probed(tk, IF inner THEN "raised"
                                ELSE IF exists THEN "true" ELSE "false"),
                     IF exists THEN "ProgrammingError" ELSE "FireboltDatabaseError")
        /\ UNCHANGED <<connection_vars, readers, fetch_vars, ncalls>>

\* The answer to the query of is_engine_running arrives (the probe of a 503
\* or 404 on a user-engine connection): the execute of
\* _get_engine_url_status_db raises what the probe cursor's classifier or the
\* decoding of the body raises; else it returns and the coroutine is
\* suspended again, in the read lock of the probe cursor's fetchone.  The
\* answer (the body, the status column of its row) stays with the probe
\* cursor; nothing of the caller's cursor has changed yet.
EngineProbeReturn(t, status, body, engine_status) ==
    LET tk == tasks[t]
        c == classify(ProbeConnection, status)
    IN  /\ tk.pc = "is_engine_running"
        /\ IF IsProbe(c) THEN ProbeAgain(t)
           ELSE IF c # "pass" THEN Fail(t, Probed(tk, "raised"), c)
           ELSE IF body = -2 THEN Fail(t, Probed(tk, "raised"), "DataError")
           ELSE /\ tasks' = [tasks EXCEPT ![t] =
                                [tk EXCEPT !.pc = "engine_fetchone",
                                           !.probe_body = body,
                                           !.engine_status = engine_status]]
                /\ UNCHANGED <<state, cursor_vars, probe_cursors>>
        /\ UNCHANGED <<connection_vars, readers, fetch_vars, ncalls>>

\* ... the read lock of the probe cursor is held: fetchone takes the first
\* row (it refuses an answer without row data), no row is
\* FireboltEngineError, else the probe compares the row's status with
\* "Running"; a running engine sends the original answer on to
\* raise_for_status.
EngineProbeFetchone(t) ==
    LET tk == tasks[t]
        row_set == row_set_from_response(0, 0, tk.probe_body)
        \* the frame once the probe cursor's answer has been consumed
        Fetched(f) == [f EXCEPT !.probe_body = -1, !.engine_status = ""]
    IN  /\ tk.pc = "engine_fetchone"
        /\ IF ~row_set.has_columns
           THEN Fail(t, Probed(Fetched(tk), "raised"), "DataError")
           ELSE IF row_set.rowcount = 0
           THEN Fail(t, Probed(Fetched(tk), "raised"), "FireboltEngineError")
           ELSE IF is_running(tk.engine_status)
           THEN Fail(t, Probed(Fetched(tk), "true"), "HTTPStatusError")
           ELSE Fail(t, Probed(Fetched(tk), "false"), "EngineNotRunningError")
        /\ UNCHANGED <<connection_vars, readers, fetch_vars, ncalls>>

\* ------------------------------------------------------- get_status, cancel
\* QueryStatus: the member an empty status text maps to, and the names of
\* the members, NOT_READY among them
NOT_READY == "NOT_READY"
QueryStatusNames ==
    {NOT_READY, "STARTED_EXECUTION", "ENDED_SUCCESSFULLY", "ENDED_WITH_ERROR",
     "CANCELED_EXECUTION"}

\* the query ids callers pass
QueryIdArgs == {"qid", ""}

\* get_status / cancel: check_not_closed, then
\* _api_request(parameters={"query_id": query_id}, path=path,
\* use_set_parameters=False) up to its first suspension point: the account
\* id lookup on a system-engine connection, the POST not sent yet, else the
\* POST
ApiCall(t, path, qid) ==
    /\ tasks[t].pc = "idle"
    /\ IF closed[Self]
       THEN /\ tasks' = [tasks EXCEPT ![t] =
                            [@ EXCEPT !.api = [NoApi EXCEPT !.op = path,
                                                            !.result = "CursorClosedError"]]]
            /\ UNCHANGED ncalls
       ELSE /\ ncalls < MaxCalls
            /\ ncalls' = ncalls + 1
            /\ LET request == Request(ncalls + 1, 0, path, "",
                                       ApiParams(set_parameters,
                                                 Single("query_id", qid), FALSE))
               IN  tasks' = [tasks EXCEPT ![t] =
                               IF connection.is_system
                               THEN [@ EXCEPT !.pc = "api_account_id", !.resume = path,
                                              !.pending = <<request>>,
                                              !.api = [NoApi EXCEPT !.op = path]]
                               ELSE [@ EXCEPT !.pc = path, !.sent = <<request>>,
                                              !.api = [NoApi EXCEPT !.op = path,
                                                                    !.posts = 1]]]
    /\ UNCHANGED <<connection_vars, probe_cursors, state, cursor_vars, readers, fetch_vars>>

\* the call is over: value is what it returned or the error it raised
ApiReturn(t, status, body, value) ==
    tasks' = [tasks EXCEPT ![t] =
                [@ EXCEPT !.pc = "idle", !.sent = << >>,
                          !.resume = "", !.pending = << >>,
                          !.api = [@ EXCEPT !.status = status, !.body = body,
                                            !.result = value]]]

get_status(t) == \E qid \in QueryIdArgs : ApiCall(t, "status", qid)

\* variant: a 400 answer is read like any other
GetStatusResponse_Ignores400(t, status, body) ==
    /\ tasks[t].pc = "status"
    /\ IF body = "absent"
       THEN state' = "ERROR" /\ ApiReturn(t, status, body, "OperationalError")
       ELSE IF body = "not_json"
       THEN state' = "ERROR" /\ ApiReturn(t, status, body, "JSONDecodeError")
       ELSE IF body = ""
       THEN state' = state /\ ApiReturn(t, status, body, NOT_READY)
       ELSE IF body \in QueryStatusNames
       THEN state' = state /\ ApiReturn(t, status, body, body)
       ELSE state' = state /\ ApiReturn(t, status, body, "KeyError")
    /\ UNCHANGED <<connection_vars, probe_cursors, cursor_vars, readers, fetch_vars, ncalls>>

\* variant: no failure of the call marks the cursor
GetStatusResponse_KeepsState(t, status, body) ==
    /\ tasks[t].pc = "status"
    /\ IF status = BAD_REQUEST \/ body = "absent"
       THEN ApiReturn(t, status, body, "OperationalError")
       ELSE IF body = "not_json"
       THEN ApiReturn(t, status, body, "JSONDecodeError")
       ELSE IF body = ""
       THEN ApiReturn(t, status, body, NOT_READY)
       ELSE IF body \in QueryStatusNames
       THEN ApiReturn(t, status, body, body)
       ELSE ApiReturn(t, status, body, "KeyError")
    /\ UNCHANGED <<connection_vars, probe_cursors, state, cursor_vars, readers, fetch_vars, ncalls>>

\* The answer of the status endpoint arrives.  body: "not_json" a body that
\* is no JSON, "absent" a JSON body with no status key, else the status text.
\* Errors inside the try block set the state to ERROR; the lookup of the
\* status name is after it.
GetStatusResponse(t, status, body) ==
    /\ tasks[t].pc = "status"
    /\ IF status = BAD_REQUEST \/ body = "absent"
       THEN state' = "ERROR" /\ ApiReturn(t, status, body, "OperationalError")
       ELSE IF body = "not_json"
       THEN state' = "ERROR" /\ ApiReturn(t, status, body, "JSONDecodeError")
       ELSE IF body = ""
       THEN state' = state /\ ApiReturn(t, status, body, NOT_READY)
       ELSE IF body \in QueryStatusNames
       THEN state' = state /\ ApiReturn(t, status, body, body)
       ELSE state' = state /\ ApiReturn(t, status, body, "KeyError")
    /\ UNCHANGED <<connection_vars, probe_cursors, cursor_vars, readers, fetch_vars, ncalls>>

\* the POST to the status endpoint raises in the transport (inside the try)
GetStatusRaises(t) ==
    /\ tasks[t].pc = "status"
    /\ state' = "ERROR"
    /\ ApiReturn(t, 0, "", "TransportError")
    /\ UNCHANGED <<connection_vars, probe_cursors, cursor_vars, readers, fetch_vars, ncalls>>

cancel(t) == \E qid \in QueryIdArgs : ApiCall(t, "cancel", qid)

\* variant: the answer is classified and a failure marks the cursor
CancelResponse_Classifies(t, status) ==
    /\ tasks[t].pc = "cancel"
    /\ IF status = HTTP_OK
       THEN state' = state /\ ApiReturn(t, status, "", "None")
       ELSE state' = "ERROR" /\ ApiReturn(t, status, "", "HTTPStatusError")
    /\ UNCHANGED <<connection_vars, probe_cursors, cursor_vars, readers, fetch_vars, ncalls>>

\* The answer of the cancel endpoint arrives: it is not looked at.
CancelResponse(t, status) ==
    /\ tasks[t].pc = "cancel"
    /\ ApiReturn(t, status, "", "None")
    /\ UNCHANGED <<connection_vars, probe_cursors, state, cursor_vars, readers, fetch_vars, ncalls>>

\* the POST to the cancel endpoint raises in the transport
CancelRaises(t) ==
    /\ tasks[t].pc = "cancel"
    /\ ApiReturn(t, 0, "", "TransportError")
    /\ UNCHANGED <<connection_vars, probe_cursors, state, cursor_vars, readers, fetch_vars, ncalls>>

\* ------------------------------------------------------------ account id
\* parameters["account_id"] = await self._client.account_id returns: the
\* request _api_request has built is POSTed and the coroutine is suspended
\* in it.  (A probe's query is not kept among the requests of the call.)
AccountResolved(t) ==
    LET tk == tasks[t] IN
    /\ tk.pc \in {"account_id", "api_account_id"}
    /\ tasks' = [tasks EXCEPT ![t] =
                    IF tk.pc = "api_account_id"
                    THEN [tk EXCEPT !.pc = tk.resume, !.resume = "", !.pending = << >>,
                                    !.sent = tk.pending,
                                    !.api = [@ EXCEPT !.posts = @ + 1]]
                    ELSE [tk EXCEPT !.pc = tk.resume, !.resume = "", !.pending = << >>,
                                    !.sent = @ \o tk.pending,
                                    !.posts = @ + Len(tk.pending)]]
    /\ UNCHANGED <<connection_vars, probe_cursors, state, cursor_vars, readers,
                   fetch_vars, ncalls>>

\* ... raises ("AccountLookupError" stands for what the client raises):
\* nothing is sent.  Inside _do_execute and inside the try of get_status the
\* error sets the state to ERROR; cancel lets it pass.
AccountRaises(t) ==
    LET tk == tasks[t] IN
    /\ tk.pc \in {"account_id", "api_account_id"}
    /\ IF tk.pc = "account_id"
       THEN Fail(t, IF IsProbe(tk.resume) THEN Probed(tk, "raised") ELSE tk,
                 "AccountLookupError")
       ELSE /\ state' = IF tk.resume = "status" THEN "ERROR" ELSE state
            /\ ApiReturn(t, 0, "", "AccountLookupError")
            /\ UNCHANGED <<probe_cursors, cursor_vars>>
    /\ UNCHANGED <<connection_vars, readers, fetch_vars, ncalls>>

\* ------------------------------------------------------------------ fetch
\* variant: only the cursor state is looked at
no_data_StateOnly == state # "DONE"

\* fetch with no row data: no successful execute is behind the cursor, or the
\* current RowSet is the DDL/DML one (columns and rows None)
no_data == state # "DONE" \/ ~CurrentRowSet.has_columns

\* variant: fetchall asks for one row
fetch_size_FetchallOne(op, size) ==
    CASE op = "fetchmany" -> size
      [] OTHER -> 1

\* rows a fetch asks for: fetchone (also the one of __anext__) 1, fetchmany
\* its size, fetchall all
fetch_size(op, size) ==
    CASE op \in {"fetchone", "__anext__"} -> 1
      [] op = "fetchmany" -> size
      [] OTHER -> Len(CurrentRowSet.rows)

\* row = await self.fetchone(); if row is None: raise StopAsyncIteration
anext_result(row) == IF row = "None" THEN "StopAsyncIteration" ELSE row

\* what a fetch returns for the rows it claimed: fetchone None at the end of
\* the rows, __anext__ what it makes of fetchone's result, the others the
\* (possibly empty) rows
fetch_result(op, empty) ==
    CASE op = "fetchone" -> IF empty THEN "None" ELSE "rows"
      [] op = "__anext__" -> anext_result(IF empty THEN "None" ELSE "rows")
      [] OTHER -> "rows"

\* _get_next_range(size): the half-open range [left, right) of rows claimed
next_range_left == idx
next_range_right(size) ==
    LET Min(a, b) == IF a <= b THEN a ELSE b
    IN  Min(idx + size, Len(CurrentRowSet.rows))

FetchResult(op, size, result, rows) ==
    [op |-> op, size |-> size, result |-> result, rows |-> rows]

\* variant: the offset is not advanced past the rows returned
fetch_body_KeepsOffset(op, size) ==
    IF no_data
    THEN /\ last_fetch' = FetchResult(op, size, "DataError", << >>)
         /\ UNCHANGED <<idx, next_set_idx, delivered>>
    ELSE LET left == next_range_left
             right == next_range_right(fetch_size(op, size))
             got == SubSeq(CurrentRowSet.rows, left + 1, right)
         IN  /\ last_fetch' =
                    FetchResult(op, size, fetch_result(op, left = right), got)
             /\ delivered' = delivered \o got
             /\ UNCHANGED <<idx, next_set_idx>>

\* fetchone / fetchmany / fetchall under the read lock
fetch_body(op, size) ==
    IF no_data
    THEN /\ last_fetch' = FetchResult(op, size, "DataError", << >>)
         /\ UNCHANGED <<idx, next_set_idx, delivered>>
    ELSE LET left == next_range_left
             right == next_range_right(fetch_size(op, size))
             got == SubSeq(CurrentRowSet.rows, left + 1, right)
         IN  /\ idx' = right
             /\ last_fetch' =
                    FetchResult(op, size, fetch_result(op, left = right), got)
             /\ delivered' = delivered \o got
             /\ UNCHANGED next_set_idx

\* variant: the row offset survives the move to the next RowSet
nextset_body_KeepsOffset ==
    IF next_set_idx >= Len(row_sets)
    THEN /\ last_fetch' = FetchResult("nextset", 0, "None", << >>)
         /\ UNCHANGED <<idx, next_set_idx, delivered>>
    ELSE /\ next_set_idx' = next_set_idx + 1
         /\ last_fetch' = FetchResult("nextset", 0, "True", << >>)
         /\ delivered' = << >>
         /\ UNCHANGED idx

\* nextset under the read lock: the next RowSet becomes current, offset 0
nextset_body ==
    IF next_set_idx >= Len(row_sets)
    THEN /\ last_fetch' = FetchResult("nextset", 0, "None", << >>)
         /\ UNCHANGED <<idx, next_set_idx, delivered>>
    ELSE /\ next_set_idx' = next_set_idx + 1
         /\ idx' = 0
         /\ last_fetch' = FetchResult("nextset", 0, "True", << >>)
         /\ delivered' = << >>

\* the sizes fetchmany is called with
FetchSizes == {0, 2}

\* fetchone/fetchmany/fetchall/nextset: async with read_locked() suspends
\* once while the read lock is taken
ReadLock(t, op, size) ==
    /\ tasks[t].pc = "idle"
    /\ readers' = readers + 1
    /\ tasks' = [tasks EXCEPT ![t] = [@ EXCEPT !.pc = "read_locked", !.op = op, !.size = size]]
    /\ UNCHANGED <<connection_vars, probe_cursors, state, cursor_vars, fetch_vars, ncalls>>

\* ... then the body runs without suspending and the lock is released; on a
\* closed cursor the body raises
ReadLocked(t) ==
    /\ tasks[t].pc = "read_locked"
    /\ IF closed[Self]
       THEN /\ last_fetch' = FetchResult(tasks[t].op, tasks[t].size, "CursorClosedError", << >>)
            /\ UNCHANGED <<idx, next_set_idx, delivered>>
       ELSE IF tasks[t].op = "nextset"
       THEN nextset_body
       ELSE fetch_body(tasks[t].op, tasks[t].size)
    /\ readers' = readers - 1
    /\ tasks' = [tasks EXCEPT ![t] = [@ EXCEPT !.pc = "idle", !.op = "", !.size = 0]]
    /\ UNCHANGED <<connection_vars, probe_cursors, state, row_sets, query_id, set_parameters, ncalls>>

fetchone(t) == ReadLock(t, "fetchone", 1)

\* check_query_executed: a cursor in state NONE (nothing executed, or an
\* execute under way) has no query behind it
query_executed == state # "NONE"

\* __anext__(): check_not_closed, then check_query_executed, refuse the call
\* at once, before the read lock is asked for: a closed cursor with the
\* cursor-closed error, a cursor in state NONE with the no-data error; else
\* the call is fetchone's, its None turned into StopAsyncIteration.
anext(t) ==
    IF closed[Self] \/ ~query_executed
    THEN /\ tasks[t].pc = "idle"
         /\ last_fetch' = FetchResult("__anext__", 1,
                                      IF closed[Self] THEN "CursorClosedError"
                                      ELSE "DataError",
                                      << >>)
         /\ UNCHANGED <<connection_vars, probe_cursors, state, cursor_vars, readers,
                        tasks, delivered, ncalls>>
    ELSE ReadLock(t, "__anext__", 1)
fetchmany(t) == \E size \in FetchSizes : ReadLock(t, "fetchmany", size)
fetchall(t) == ReadLock(t, "fetchall", 0)
nextset(t) == ReadLock(t, "nextset", 0)

\* ---------------------------------------------------------------- resolver
\* a row of information_schema.engines as selected: <<url, attached_to, status>>
CatalogStatuses == {ENGINE_STATUS_RUNNING, "Stopped", "running", "RUNNING"}
CatalogRows == {<<"url", db, st>> : db \in {"db", "other"}, st \in CatalogStatuses}
CatalogAnswers == {<< >>} \cup {<<r>> : r \in CatalogRows}
                  \cup {<<r1, r2>> : r1 \in CatalogRows, r2 \in {<<"url2", "db", "Stopped">>,
                                                                 <<"url2", "other", "Running">>}}

\* variant: the values of the last row are returned
engine_url_status_db_LastRow(rows) ==
    LET row == rows[Len(rows)] IN <<row[1], row[3], row[2]>>

\* engine_url, database, status = row; return engine_url, status, database
\* (row is what fetchone returns: the first row)
engine_url_status_db(rows) ==
    LET row == rows[1] IN <<row[1], row[3], row[2]>>

\* what the resolver calls leave alone
resolver_frame ==
    <<connection, closed, cursors, is_closed, last_call, set_parameters, state,
      row_sets, next_set_idx, idx, query_id, readers, tasks, fetch_vars, ncalls>>

\* the cursor _get_engine_url_status_db opens on the system-engine connection
ResolverCursor == <<0, 1>>

\* the resolver call has opened its cursor on the system-engine connection
\* and executes its catalog query: it is suspended in the account id lookup
\* of the cursor's _api_request, the POST of the query not sent yet
AwaitCatalog(op) ==
    /\ lookup' = [NoLookup EXCEPT !.op = op, !.pc = "account_id", !.resume = "execute"]
    /\ probe_cursors' = Append(probe_cursors, ResolverCursor)

\* is_engine_running(connection, engine_url): True at once on a system-engine
\* connection, else the catalog is asked
is_engine_running ==
    /\ lookup.pc = "idle"
    /\ IF connection.is_system
       THEN /\ lookup' = [NoLookup EXCEPT !.op = "is_engine_running",
                                          !.result = "True"]
            /\ UNCHANGED probe_cursors
       ELSE AwaitCatalog("is_engine_running")
    /\ UNCHANGED resolver_frame

\* _get_engine_url_status_db(system_engine, engine_name) called to resolve an
\* engine name
get_engine_url_status_db ==
    /\ lookup.pc = "idle"
    /\ IF ProbeConnectionClosed
       THEN /\ lookup' = [NoLookup EXCEPT !.op = "_get_engine_url_status_db",
                                          !.result = "ConnectionClosedError"]
            /\ UNCHANGED probe_cursors
       ELSE AwaitCatalog("_get_engine_url_status_db")
    /\ UNCHANGED resolver_frame

\* the resolver call ends: it returns or raises result.  The with blocks of
\* its catalog query and of the database probes inside it are left, innermost
\* first, and their cursors closed.
LookupReturn(result, value) ==
    /\ lookup' = [lookup EXCEPT !.pc = "idle", !.resume = "", !.result = result,
                                !.value = value]
    /\ probe_cursors' = IF lookup.pc = "get"
                        THEN probe_cursors
                        ELSE release(probe_cursors, 0, 1 + lookup.probes)

\* the execute of the resolver's cursor got a 403 and the system-engine
\* connection has a database: its _raise_if_error awaits is_db_available,
\* which opens a further cursor and is suspended in the account id lookup
\* before the POST of its query
LookupProbe(lk) ==
    IF ProbeConnectionClosed
    THEN /\ lookup' = [lk EXCEPT !.pc = "idle", !.result = "ConnectionClosedError"]
         /\ probe_cursors' = release(probe_cursors, 0, 1 + lk.probes)
    ELSE /\ lk.probes < MaxProbes
         /\ lookup' = [lk EXCEPT !.pc = "account_id", !.resume = "is_db_available",
                                 !.probes = @ + 1]
         /\ probe_cursors' = Append(probe_cursors, <<0, lk.probes + 2>>)

\* the account id lookup of the resolver's cursor, or of the probe's,
\* returns: the query is POSTed
LookupAccountResolved ==
    /\ lookup.pc = "account_id"
    /\ lookup' = [lookup EXCEPT !.pc = lookup.resume, !.resume = "", !.requests = @ + 1]
    /\ UNCHANGED probe_cursors
    /\ UNCHANGED resolver_frame

\* ... raises: nothing is sent and the error comes out of the resolver call
LookupAccountRaises ==
    /\ lookup.pc = "account_id"
    /\ LookupReturn("AccountLookupError", << >>)
    /\ UNCHANGED resolver_frame

\* the bodies the catalog query is answered with: decodable or not
CatalogBodies == {"json", "not_json"}

\* The catalog query is answered: the execute on the system-engine cursor
\* raises what its classifier or the decoding of the body raises, or starts
\* the classifier's database probe; else it returns and the call is suspended
\* again, in the read lock of fetchone, the answer with its cursor (columns
\* FALSE: an answer without row data).
CatalogAnswer(status, body, columns, rows) ==
    LET c == classify(ProbeConnection, status)
        answered == [lookup EXCEPT !.status = status, !.body = body,
                                   !.columns = columns, !.rows = rows]
    IN  /\ lookup.pc = "execute"
        /\ IF IsProbe(c) THEN LookupProbe(answered)
           ELSE IF c # "pass" \/ body = "not_json"
           THEN /\ lookup' = [answered EXCEPT !.pc = "idle",
                                              !.result = IF c # "pass" THEN c
                                                         ELSE "DataError"]
                /\ probe_cursors' = release(probe_cursors, 0, 1 + lookup.probes)
           ELSE /\ lookup' = [answered EXCEPT !.pc = "fetchone"]
                /\ UNCHANGED probe_cursors
        /\ UNCHANGED resolver_frame

\* ... the read lock of the resolver's cursor is held: fetchone is refused on
\* a cursor closed in the meantime (with its connection); else it takes the
\* first row (it refuses an answer without row data); no row is
\* FireboltEngineError; is_engine_running compares the row's status, the name
\* resolution returns the row's values.
CatalogFetchone ==
    LET value == engine_url_status_db(lookup.rows)
    IN  /\ lookup.pc = "fetchone"
        /\ IF ~Contains(probe_cursors, ResolverCursor)
           THEN LookupReturn("CursorClosedError", << >>)
           ELSE IF ~lookup.columns THEN LookupReturn("DataError", << >>)
           ELSE IF lookup.rows = << >> THEN LookupReturn("FireboltEngineError", << >>)
           ELSE IF lookup.op = "is_engine_running"
           THEN LookupReturn(IF is_running(value[2]) THEN "True" ELSE "False", << >>)
           ELSE LookupReturn("row", value)
        /\ UNCHANGED resolver_frame

\* The query of the classifier's database probe is answered.  The probe is
\* cursor.execute(...) > 0 on the system-engine connection: what that execute
\* raises comes out of the resolver call (a further 403 probes again); when it
\* returns, the execute of the catalog query raises ProgrammingError for a
\* database that exists and FireboltDatabaseError for one that does not.
CatalogProbeReturn(status, body) ==
    LET c == classify(ProbeConnection, status)
        exists == row_set_from_response(0, 0, body).rowcount > 0
    IN  /\ lookup.pc = "is_db_available"
        /\ IF IsProbe(c) THEN LookupProbe(lookup)
           ELSE IF c # "pass" THEN LookupReturn(c, << >>)
           ELSE IF body = -2 THEN LookupReturn("DataError", << >>)
           ELSE LookupReturn(IF exists THEN "ProgrammingError"
                             ELSE "FireboltDatabaseError", << >>)
        /\ UNCHANGED resolver_frame

\* the request the resolver call is suspended in raises in the transport
LookupRaises ==
    /\ lookup.pc \in {"execute", "is_db_available", "get"}
    /\ LookupReturn("TransportError", << >>)
    /\ UNCHANGED resolver_frame

\* _get_system_engine_url(auth, account_name, api_endpoint): suspended in the
\* GET of the gateway lookup
get_system_engine_url ==
    /\ lookup.pc = "idle"
    /\ lookup' = [NoLookup EXCEPT !.op = "_get_system_engine_url", !.pc = "get",
                                  !.requests = 1]
    /\ UNCHANGED probe_cursors
    /\ UNCHANGED resolver_frame

\* the bodies the gateway answers with: with or without the engineUrl key
GatewayBodies == {"engineUrl", "absent"}

\* the gateway answers
GatewayAnswer(status, body) ==
    /\ lookup.pc = "get"
    /\ lookup' = [lookup EXCEPT
                    !.pc = "idle", !.status = status, !.body = body,
                    !.result = IF status = NOT_FOUND THEN "AccountNotFoundError"
                               ELSE IF status # HTTP_OK THEN "InterfaceError"
                               ELSE IF body = "absent" THEN "KeyError"
                               ELSE "url",
                    !.value = IF status = HTTP_OK /\ body # "absent" THEN <<body>>
                              ELSE << >>]
    /\ UNCHANGED probe_cursors
    /\ UNCHANGED resolver_frame

\* what the cursor operations and the other connection calls leave alone
\* -------------------------------------------------- registry and lifecycle
cursor_frame ==
    <<state, row_sets, next_set_idx, idx, query_id, readers, tasks, fetch_vars, ncalls,
      lookup, probe_cursors>>

\* a caller runs connection._remove_cursor(c): one step, nothing raised
RemoveCursor(c) ==
    /\ c \in DOMAIN closed
    /\ cursors' = remove_cursor(cursors, c)
    /\ last_call' = [NoCall EXCEPT !.op = "_remove_cursor", !.cursor = c, !.result = "None"]
    /\ UNCHANGED <<connection, closed, is_closed, set_parameters, cursor_frame>>

\* connection.cursor(): a new cursor is created and registered; on a closed
\* connection the call fails
cursor ==
    /\ Cardinality(DOMAIN closed) < MaxCursors
    /\ IF is_closed
       THEN /\ last_call' = [NoCall EXCEPT !.op = "cursor", !.result = "ConnectionClosedError"]
            /\ UNCHANGED <<closed, cursors>>
       ELSE LET c == Cardinality(DOMAIN closed) + 1 IN
            /\ closed' = [x \in (DOMAIN closed) \cup {c} |->
                              IF x = c THEN FALSE ELSE closed[x]]
            /\ cursors' = Append(cursors, c)
            /\ last_call' = [NoCall EXCEPT !.op = "cursor", !.cursor = c, !.result = "Cursor"]
    /\ UNCHANGED <<connection, is_closed, set_parameters, cursor_frame>>

\* variant: commit never fails
commit_NeverFails ==
    /\ last_call' = [NoCall EXCEPT !.op = "commit", !.result = "None"]
    /\ UNCHANGED <<connection, closed, cursors, is_closed, set_parameters, cursor_frame>>

\* BaseConnection.commit(): nothing, or ConnectionClosedError
commit ==
    /\ last_call' = [NoCall EXCEPT !.op = "commit",
                                   !.result = IF is_closed THEN "ConnectionClosedError"
                                              ELSE "None"]
    /\ UNCHANGED <<connection, closed, cursors, is_closed, set_parameters, cursor_frame>>

\* connection.close(): every registered cursor is closed (and so leaves the
\* registry), then the connection is marked closed.  On a system-engine
\* connection the cursors of the probes and of the resolver are cursors of
\* this connection and are closed with the others; the calls suspended in
\* them go on.
connection_close ==
    /\ closed' = [c \in DOMAIN closed |-> closed[c] \/ Contains(cursors, c)]
    /\ cursors' = << >>
    /\ probe_cursors' = IF connection.is_system THEN << >> ELSE probe_cursors
    /\ is_closed' = TRUE
    /\ set_parameters' = IF Contains(cursors, Self) THEN EmptyDict ELSE set_parameters
    /\ last_call' = [NoCall EXCEPT !.op = "close", !.result = "None"]
    /\ UNCHANGED <<connection, state, row_sets, next_set_idx, idx, query_id, readers,
                   tasks, fetch_vars, ncalls, lookup>>

\* flush_parameters(): the session SET parameters are dropped
flush_parameters ==
    /\ set_parameters' = EmptyDict
    /\ UNCHANGED <<connection_vars, probe_cursors, state, row_sets, next_set_idx, idx, query_id,
                   readers, tasks, fetch_vars, ncalls>>

\* close() of cursor c (also what leaving the cursor's scope runs): the cursor
\* is closed and leaves the registry; the session SET parameters of the cursor
\* end with it.  A call suspended inside the cursor goes on.
close(c) ==
    /\ c \in DOMAIN closed
    /\ closed' = [closed EXCEPT ![c] = TRUE]
    /\ cursors' = remove_cursor(cursors, c)
    /\ set_parameters' = IF c = Self THEN EmptyDict ELSE set_parameters
    /\ UNCHANGED <<connection, is_closed, last_call, lookup, probe_cursors, state,
                   row_sets, next_set_idx, idx, query_id, readers, tasks, fetch_vars,
                   ncalls>>

\* ------------------------------------------------------------ specification
Bodies == -2..MaxRows
AsyncBodies == {"empty", "not_json", "absent", "", "qid"}
\* the catalog query for one engine name: undecodable, no row data, no row,
\* the engine's row
EngineBodies == -2..1
\* the status column of the engine's catalog row
EngineStatuses == {ENGINE_STATUS_RUNNING, "Stopped"}

\* the account id lookup ends, the server answers a statement sent for
\* synchronous execution, or a probe ends, for task t
SyncAnswer(t) ==
    \/ AccountResolved(t)
    \/ AccountRaises(t)
    \/ \E status \in Statuses : ValidateSetResponse(t, status)
    \/ \E status \in Statuses, body \in Bodies :
          (status # HTTP_OK => body = -1) /\ QueryResponse(t, status, body)
    \/ RequestRaises(t)
    \/ \E status \in Statuses, body \in Bodies :
          (status # HTTP_OK => body = -1) /\ DbProbeReturn(t, status, body)
    \/ \E status \in Statuses, body \in EngineBodies, engine_status \in EngineStatuses :
          /\ status # HTTP_OK => body = -1
          /\ body < 1 => engine_status = ENGINE_STATUS_RUNNING
          /\ EngineProbeReturn(t, status, body, engine_status)
    \/ EngineProbeFetchone(t)

\* ... or the server answers an async submission
Answer(t) ==
    \/ SyncAnswer(t)
    \/ \E status \in Statuses, body \in AsyncBodies :
          (status # HTTP_OK => body = "empty") /\ AsyncResponse(t, status, body)

Execute(t) == execute(t) \/ executemany(t) \/ Answer(t)

Fetch(t) ==
    \/ fetchone(t)
    \/ anext(t)
    \/ fetchmany(t)
    \/ fetchall(t)
    \/ nextset(t)
    \/ ReadLocked(t)

\* the status texts the status endpoint answers with
StatusBodies == QueryStatusNames \cup {"not_json", "absent", "", "BOGUS"}

\* get_status and cancel, and the answers to them
Api(t) ==
    \/ get_status(t)
    \/ cancel(t)
    \/ \E status \in Statuses, body \in StatusBodies : GetStatusResponse(t, status, body)
    \/ GetStatusRaises(t)
    \/ \E status \in Statuses : CancelResponse(t, status)
    \/ CancelRaises(t)

\* the resolver calls and the answers to them
Resolve ==
    \/ is_engine_running
    \/ get_engine_url_status_db
    \/ get_system_engine_url
    \/ \E status \in Statuses, body \in CatalogBodies, columns \in BOOLEAN,
          rows \in CatalogAnswers :
          /\ (status # HTTP_OK \/ body = "not_json") => ~columns
          /\ ~columns => rows = << >>
          /\ CatalogAnswer(status, body, columns, rows)
    \/ CatalogFetchone
    \/ \E status \in Statuses, body \in Bodies :
          (status # HTTP_OK => body = -1) /\ CatalogProbeReturn(status, body)
    \/ \E status \in Statuses, body \in GatewayBodies :
          (status # HTTP_OK => body = "absent") /\ GatewayAnswer(status, body)
    \/ LookupRaises
    \/ LookupAccountResolved
    \/ LookupAccountRaises
SpecResolver == Init /\ [][Resolve]_vars

\* any number of callers on one cursor, their calls overlapping freely
Next ==
    \/ \E t \in Tasks : Execute(t) \/ execute_skip_parsing(t) \/ Fetch(t) \/ Api(t)
    \/ flush_parameters
    \/ \E c \in 1..MaxCursors : close(c) \/ RemoveCursor(c)
    \/ cursor
    \/ commit
    \/ connection_close
    \/ Resolve
Spec == Init /\ [][Next]_vars

\* one caller (a call starts when the previous one has returned) that only
\* executes
NextExecute == Execute(1)
SpecExecute == Init /\ [][NextExecute]_vars

\* one caller that executes and fetches
NextOne == Execute(1) \/ Fetch(1)
SpecOne == Init /\ [][NextOne]_vars

\* one caller that only executes, with the text parsed or not
NextVerbatim == Execute(1) \/ execute_skip_parsing(1)
SpecVerbatim == Init /\ [][NextVerbatim]_vars

\* callers that create, close and unregister cursors of one connection,
\* commit on it and close it, in any order
NextConnection ==
    \/ cursor
    \/ \E c \in 1..MaxCursors : close(c)
    \/ \E c \in 1..MaxCursors : RemoveCursor(c)
    \/ commit
    \/ connection_close
SpecConnection == Init /\ [][NextConnection]_vars

\* one caller that executes, polls the status of queries and cancels them
NextAsync == Execute(1) \/ Api(1)
SpecAsync == Init /\ [][NextAsync]_vars

\* execute(query) with no parameters, synchronous, and a server that answers
\* every statement (a SET probe with 200 or 400); where the connection is a
\* system-engine one the account id is found (AccountResolved)
PlainExecute(t) ==
    \E raw_query \in QueryTexts : ExecuteStart(t, raw_query, 0, FALSE, FALSE)
PlainAnswer(t) ==
    \/ \E status \in {HTTP_OK, BAD_REQUEST} : ValidateSetResponse(t, status)
    \/ \E body \in -1..MaxRows : QueryResponse(t, HTTP_OK, body)

\* executemany(query, parameters_seq) with matching parameter sets, synchronous
PlainExecutemany(t) ==
    \E raw_query \in QueryTexts, nsets \in 2..MaxStmts :
        /\ Len(raw_query) * nsets <= MaxStmts
        /\ ExecuteStart(t, raw_query, nsets, FALSE, FALSE)

\* one caller that executes, fetches, polls and cancels on a cursor of a
\* user-engine connection with a database; the session parameters are flushed
\* and the cursor is closed at any moment
InitLifecycle == Init /\ connection.database /\ ~connection.is_system
NextLifecycle ==
    \/ PlainExecute(1)
    \/ PlainExecutemany(1)
    \/ PlainAnswer(1)
    \/ fetchall(1)
    \/ anext(1)
    \/ nextset(1)
    \/ ReadLocked(1)
    \/ Api(1)
    \/ flush_parameters
    \/ close(Self)
SpecLifecycle == InitLifecycle /\ [][NextLifecycle]_vars

\* callers whose executes on the one cursor overlap
NextConcurrent == \E t \in Tasks : PlainExecute(t) \/ AccountResolved(t) \/ PlainAnswer(t)
SpecConcurrent == Init /\ [][NextConcurrent]_vars

\* SET directives whose names are those of parameters the cursor passes
\* itself, with values it never passes
SessionDirectives ==
    {<<"output_format", "CSV">>, <<"advanced_mode", "0">>, <<"database", "other">>,
     <<"account_id", "other">>, <<"time_zone", "1">>, <<"time_zone", "2">>}
SessionTexts ==
    SeqsUpTo({Literal} \cup {SetParameter(d[1], d[2]) : d \in SessionDirectives},
             MaxStmts) \ {<< >>}

\* execute(query, async_execution) of a text with such directives
execute_session(t) ==
    \E raw_query \in SessionTexts, async_execution \in BOOLEAN :
        ExecuteStart(t, raw_query, 0, FALSE, async_execution)

\* one caller that executes such texts
NextSession == execute_session(1) \/ Answer(1)
SpecSession == Init /\ [][NextSession]_vars

\* one caller that executes (synchronously, no parameters) while cursors are
\* opened on the connection and closed, and the connection itself is closed
NextProbes ==
    \/ PlainExecute(1)
    \/ SyncAnswer(1)
    \/ cursor
    \/ \E c \in 1..MaxCursors : close(c)
    \/ connection_close
SpecProbes == Init /\ [][NextProbes]_vars

\* two callers that execute on one cursor, their calls overlapping freely,
\* the second one also fetching between its executes
NextInterleaved ==
    \/ \E t \in Tasks : PlainExecute(t) \/ AccountResolved(t) \/ PlainAnswer(t)
    \/ fetchall(2)
    \/ ReadLocked(2)
SpecInterleaved == Init /\ [][NextInterleaved]_vars

\* one caller executes while the other one fetches at any moment
NextWindow ==
    \/ PlainExecute(1)
    \/ AccountResolved(1)
    \/ PlainAnswer(1)
    \/ fetchall(2)
    \/ nextset(2)
    \/ ReadLocked(2)
SpecWindow == Init /\ [][NextWindow]_vars

\* where a coroutine inside _do_execute is suspended: in the account id
\* lookup of a request, in the POST of a statement or of a probe's query, in
\* the fetch of the engine probe
ExecutePcs ==
    {"account_id", "validate_set", "query", "async_query", "is_db_available",
     "is_engine_running", "engine_fetchone"}
InFlight(t) == tasks[t].pc \in ExecutePcs

\* one caller executes; once its call is over any caller fetches, the fetches
\* overlapping; the next execute starts when the fetches have returned
NextReaders ==
    \/ readers = 0 /\ PlainExecute(1)
    \/ AccountResolved(1)
    \/ PlainAnswer(1)
    \/ \E t \in Tasks : ~InFlight(1) /\ Fetch(t)
SpecReaders == Init /\ [][NextReaders]_vars

\* ----------------------------------------------------------------- claims
RowFetches == {"fetchone", "fetchmany", "fetchall"}

\* the caller's last execute/executemany has returned or raised
Finished(t) == tasks[t].call >= 1 /\ tasks[t].pc \notin ExecutePcs
Succeeded(t) == Finished(t) /\ tasks[t].outcome = "ok"
Failed(t) == Finished(t) /\ tasks[t].outcome # "ok"

\* C1: every execute/executemany first resets the cursor (state NONE, no
\* row-sets of the previous execute) and then ends in exactly one of two
\* states: DONE if every statement succeeded, ERROR if the call raised; the
\* state after a finished execute is never NONE.
C1_DoneOrErrorAfterExecute ==
    /\ Succeeded(1) => state = "DONE"
    /\ Failed(1) => state = "ERROR"
    /\ InFlight(1) =>
          /\ state = "NONE"
          /\ \A i \in 1..Len(row_sets) : row_sets[i].stmt[1] = tasks[1].call

\* an execute whose parameters do not fit the text has raised from
\* split_format_sql, and the state is NONE
C1_SplitRaisedStateNone ==
    /\ Failed(1)
    /\ tasks[1].outcome = "DataError"
    /\ tasks[1].pos = 0
    /\ tasks[1].posts = 0
    /\ state = "NONE"
    /\ last_fetch = NoFetch

\* C2: concurrent execute/executemany calls on one cursor are serialized: a
\* call resets the cursor only when no other call is between its reset and
\* its final state write, so the row-sets the cursor holds are those of
\* exactly one call.
C2_ExecutesSerialized ==
    /\ Cardinality({t \in Tasks : InFlight(t)}) <= 1
    /\ \A i, j \in 1..Len(row_sets) : row_sets[i].stmt[1] = row_sets[j].stmt[1]

\* both calls have returned successfully and the cursor holds row-sets of
\* the two of them
C2_RowSetsOfTwoCalls ==
    /\ \A t \in Tasks : Succeeded(t)
    /\ state = "DONE"
    /\ \E i, j \in 1..Len(row_sets) : row_sets[i].stmt[1] # row_sets[j].stmt[1]

\* C3 (as stated): on a cursor whose execute has completed with a current
\* row-set of R rows, the slices any concurrent fetchone/fetchmany/fetchall
\* calls have returned are together exactly the R rows.
C3_SlicesAreAllRows ==
    (/\ state = "DONE"
     /\ ~no_data
     /\ readers = 0
     /\ last_fetch.op \in RowFetches) => delivered = CurrentRowSet.rows

\* C3: on a cursor whose execute has completed with a current row-set of R
\* rows, the slices concurrent fetchone/fetchmany/fetchall calls return are
\* each in original order and pairwise disjoint, and put one after the other
\* in the order the calls ran they are the first idx rows of the row-set,
\* each delivered exactly once; they are all R rows once the offset has
\* reached R, which a returned fetchall ensures.
C3_SlicesArePrefix ==
    (state = "DONE" /\ ~no_data) =>
        /\ idx <= Len(CurrentRowSet.rows)
        /\ delivered = SubSeq(CurrentRowSet.rows, 1, idx)
        /\ last_fetch.op \in RowFetches =>
              /\ last_fetch.result # "DataError"
              /\ last_fetch.rows =
                    SubSeq(CurrentRowSet.rows, idx - Len(last_fetch.rows) + 1, idx)
        /\ last_fetch.op = "fetchall" => delivered = CurrentRowSet.rows

\* a fetch has returned the first row of two while another caller holds the
\* read lock
C3_FetchedUnderTwoReaders ==
    /\ state = "DONE"
    /\ Len(CurrentRowSet.rows) = 2
    /\ readers = 1
    /\ last_fetch.op = "fetchone"
    /\ delivered = <<CurrentRowSet.rows[1]>>
    /\ \E t \in Tasks : tasks[t].pc = "read_locked" /\ tasks[t].op = "fetchall"

\* C4: after an execute that fails the state is ERROR and fetchone /
\* fetchmany / fetchall fail with no data, returning no row of an earlier
\* execute; after a later successful execute the state is DONE and fetches
\* on a row-set with row data succeed.
C4_ErrorAfterFailedExecute ==
    /\ Failed(1) =>
          /\ state = "ERROR"
          /\ last_fetch.op \in RowFetches =>
                last_fetch.result = "DataError" /\ last_fetch.rows = << >>
    /\ Succeeded(1) =>
          /\ state = "DONE"
          /\ (last_fetch.op \in RowFetches /\ CurrentRowSet.has_columns) =>
                last_fetch.result # "DataError"

\* after a successful execute, a second one raised from split_format_sql:
\* a fetch has failed with no data, and the state is NONE
C4_FetchAfterSplitRaised ==
    /\ Failed(1)
    /\ tasks[1].call = 2
    /\ tasks[1].outcome = "DataError"
    /\ tasks[1].pos = 0
    /\ state = "NONE"
    /\ last_fetch.op = "fetchall"
    /\ last_fetch.result = "DataError"

\* the SET probe of the statement the call ended at was rejected with 400
SetRejected(tk) ==
    /\ tk.pc = "idle"
    /\ tk.status = BAD_REQUEST
    /\ tk.outcome = "OperationalError"

\* C5 (as stated): when the validation probe of a SET directive is rejected
\* with 400, execute raises and the session parameter map is exactly what it
\* was before the call.
C5_MapAsBeforeTheCall ==
    (Finished(1) /\ SetRejected(tasks[1])) => set_parameters = tasks[1].sp0

\* C5: when the validation probe of a SET directive is rejected with 400,
\* execute raises the invalid-parameter (operational) error, and the session
\* parameter map is exactly what it was when the probe was sent: the
\* candidate is not added, and the directives of the same call that passed
\* before it stay committed.  When the rejected directive is the first
\* statement of the call, the map is what it was before the call.
C5_RejectedSetLeavesMap ==
    /\ [](Finished(1) /\ SetRejected(tasks[1]) =>
            /\ state = "ERROR"
            /\ tasks[1].pos = 1 => set_parameters = tasks[1].sp0)
    /\ [][\A t \in Tasks :
            (tasks[t].pc = "validate_set" /\ tasks'[t].status = BAD_REQUEST) =>
                /\ SetRejected(tasks'[t])
                /\ set_parameters' = set_parameters]_vars

\* a second SET of a call was rejected and the first one stays committed
C5_SecondSetRejected ==
    /\ Finished(1)
    /\ SetRejected(tasks[1])
    /\ tasks[1].pos = 2
    /\ tasks[1].sp0 = EmptyDict
    /\ set_parameters = Single("time_zone", "1")

\* the session map once the SET directives among the first n statements of
\* queries have been committed over sp, in document order
RECURSIVE CommittedBefore(_, _, _)
CommittedBefore(sp, queries, n) ==
    IF n = 0 THEN sp
    ELSE LET before == CommittedBefore(sp, queries, n - 1)
             q == queries[n]
         IN  IF q.kind = "set" THEN Merge(before, Single(q.name, q.value)) ELSE before

\* the parameters a request names itself (they override the session's)
ExplicitNames(tk, p) ==
    IF tk.queries[p].kind = "set" THEN {tk.queries[p].name}
    ELSE IF tk.async_execution THEN {"async_execution", "advanced_mode", "output_format"}
    ELSE {"output_format"}

\* C6: the statements of one execute are processed in document order, one
\* request each; a SET directive that passed validation is committed to the
\* session map before the next statement is sent, so the request of every
\* later statement of the call carries its name and value (unless that
\* request names the parameter itself), the requests before it do not carry
\* it, and the map a later execute starts from holds it.  (The requests of a
\* call are those it has sent and the one it has built and holds back until
\* the account id is there.)
C6_SessionParametersInOrder ==
    \A t \in Tasks : InFlight(t) =>
        LET tk == tasks[t]
            requests == tk.sent \o tk.pending
        IN
        /\ Len(requests) = tk.pos
        /\ set_parameters = CommittedBefore(tk.sp0, tk.queries, tk.pos - 1)
        /\ \A i \in 1..Len(requests) :
              LET r == requests[i]
                  committed == CommittedBefore(tk.sp0, tk.queries, i - 1)
              IN  /\ r.pos = i
                  /\ r.call = tk.call
                  /\ \A n \in SetNames \ ExplicitNames(tk, i) :
                        IF n \in DOMAIN committed
                        THEN n \in DOMAIN r.params /\ r.params[n] = committed[n]
                        ELSE n \notin DOMAIN r.params

\* the request of the second statement carries the parameter the first
\* statement set, which the session did not hold before the call
C6_SecondCarriesFirstSet ==
    /\ InFlight(1)
    /\ tasks[1].pos = 2
    /\ tasks[1].sp0 = EmptyDict
    /\ tasks[1].queries[1] = SetParameter("time_zone", "2")
    /\ tasks[1].queries[2] = Literal
    /\ tasks[1].sent[1].query = "select 1"
    /\ tasks[1].sent[2].params["time_zone"] = "2"

\* task t's fetch or nextset call runs its body in this step
Runs(t, ops) == tasks[t].pc = "read_locked" /\ tasks[t].op \in ops /\ tasks'[t].pc = "idle"

\* C7: after a successful execute of k statements the cursor holds their k
\* RowSets in document order and exposes the first one (description null when
\* it is a DDL/DML one); a nextset() that succeeds moves to the RowSet of the
\* next statement and resets the row offset to 0; the current RowSet is
\* always one of the k, so exactly k-1 nextset() calls succeed, and every
\* further one returns the null sentinel and leaves the current RowSet and
\* the offset alone.
C7_NextsetNavigation ==
    /\ [](Succeeded(1) =>
            /\ Len(row_sets) = tasks[1].nstmts
            /\ \A i \in 1..Len(row_sets) : row_sets[i].stmt = <<tasks[1].call, i>>
            /\ next_set_idx \in 1..Len(row_sets)
            /\ last_fetch = NoFetch =>
                  /\ next_set_idx = 1
                  /\ idx = 0
                  /\ description_is_null = ~row_sets[1].has_columns)
    /\ [][(Succeeded(1) /\ Runs(1, {"nextset"})) =>
            IF next_set_idx < Len(row_sets)
            THEN /\ next_set_idx' = next_set_idx + 1
                 /\ idx' = 0
                 /\ last_fetch'.result = "True"
            ELSE /\ next_set_idx' = next_set_idx
                 /\ idx' = idx
                 /\ last_fetch'.result = "None"]_vars

\* of two RowSets the second is current with a row fetched, and a further
\* nextset() has returned the null sentinel
C7_ThirdNextsetNull ==
    /\ Succeeded(1)
    /\ Len(row_sets) = 2
    /\ next_set_idx = 2
    /\ idx = 1
    /\ last_fetch.op = "nextset"
    /\ last_fetch.result = "None"

NoDuplicates(q) == \A i, j \in 1..Len(q) : i < j => q[i] # q[j]

\* C8: after a successful execute of a row-returning statement, a fetchall()
\* returns all remaining rows of the current RowSet, every later fetchall()
\* returns an empty sequence and fetchone() the null sentinel, neither
\* raising; no row is returned by two fetch calls.
C8_FetchallOnceThenEmpty ==
    /\ []((Succeeded(1) /\ CurrentRowSet.has_columns) => NoDuplicates(delivered))
    /\ [][(Succeeded(1) /\ CurrentRowSet.has_columns /\ Runs(1, {"fetchall", "fetchone"})) =>
            /\ last_fetch'.result # "DataError"
            /\ tasks[1].op = "fetchall" =>
                  /\ last_fetch'.rows =
                        SubSeq(CurrentRowSet.rows, idx + 1, Len(CurrentRowSet.rows))
                  /\ idx' = Len(CurrentRowSet.rows)
            /\ idx = Len(CurrentRowSet.rows) =>
                  /\ last_fetch'.rows = << >>
                  /\ last_fetch'.result = IF tasks[1].op = "fetchone" THEN "None" ELSE "rows"
                  /\ idx' = idx]_vars

\* both rows have been returned and a second fetchall() returned the empty
\* sequence
C8_SecondFetchallEmpty ==
    /\ Succeeded(1)
    /\ Len(CurrentRowSet.rows) = 2
    /\ delivered = CurrentRowSet.rows
    /\ last_fetch.op = "fetchall"
    /\ last_fetch.result = "rows"
    /\ last_fetch.rows = << >>

\* C9: fetchone, fetchmany and fetchall fail with the no-data error when no
\* successful execute is behind the cursor or when the current RowSet is the
\* DDL/DML one (rowcount -1, columns null); they then return no row and no
\* empty sequence and claim no row.
C9_FetchWithoutRowData ==
    [][\A t \in Tasks :
        (/\ Runs(t, RowFetches)
         /\ \/ state # "DONE"
            \/ (rowcount = -1 /\ description_is_null)) =>
            /\ last_fetch'.result = "DataError"
            /\ last_fetch'.rows = << >>
            /\ idx' = idx
            /\ delivered' = delivered]_vars

\* a fetchmany on the RowSet of a DDL/DML statement has failed with no data
C9_FetchOnSentinelFailed ==
    /\ Succeeded(1)
    /\ rowcount = -1
    /\ description_is_null
    /\ last_fetch.op = "fetchmany"
    /\ last_fetch.result = "DataError"

\* C10: when statement i of an execute raises, no request is sent for a
\* later statement of the call, no RowSet is appended for statement i or a
\* later one (the cursor holds those of statements 1..i-1), the state is
\* ERROR and the exception reaches the caller.
C10_AbortOnFailure ==
    (Failed(1) /\ tasks[1].pos >= 1) =>
        /\ tasks[1].posts <= tasks[1].pos
        /\ Len(row_sets) = tasks[1].pos - 1
        /\ \A i \in 1..Len(row_sets) : row_sets[i].stmt = <<tasks[1].call, i>>
        /\ state = "ERROR"
        /\ tasks[1].outcome # ""

\* the second of two statements raised from the classifier after the first
\* one's RowSet was appended
C10_SecondOfTwoRaised ==
    /\ Failed(1)
    /\ tasks[1].nstmts = 2
    /\ tasks[1].pos = 2
    /\ tasks[1].posts = 2
    /\ tasks[1].status = INTERNAL_SERVER_ERROR
    /\ tasks[1].outcome = "OperationalError"
    /\ Len(row_sets) = 1

\* the error _raise_if_error derives from the statement's own response when
\* no probe says otherwise
PrimaryError(status) ==
    IF status = FORBIDDEN THEN "ProgrammingError" ELSE "HTTPStatusError"

\* C11: when the response to a statement has status 403, 503 or 404 and the
\* re-probe it triggers fails (its request errors or its lookup raises), the
\* error raised to the caller is the one derived from the original response,
\* not the one that came out of the probe.
C11_ProbeFailureKeepsPrimaryError ==
    (Failed(1) /\ tasks[1].probe = "raised") =>
        /\ tasks[1].origin = "cursor"
        /\ tasks[1].outcome = PrimaryError(tasks[1].status)

\* a statement was answered 403, the query of is_db_available was answered
\* 500, and the caller got the probe's operational error
C11_ProbeErrorRaised ==
    /\ Failed(1)
    /\ tasks[1].status = FORBIDDEN
    /\ tasks[1].probes = 1
    /\ tasks[1].probe = "raised"
    /\ tasks[1].origin = "probe"
    /\ tasks[1].outcome = "OperationalError"
    /\ state = "ERROR"

\* C12: for one statement of an execute the statement is POSTed at most
\* once, and a failing response causes at most one probe request before the
\* error is raised: the probe is not retried and no further probe follows
\* it, whatever the statuses of the answers.
C12_AtMostOneProbe ==
    /\ tasks[1].probes <= 1
    /\ InFlight(1) =>
          /\ Len(tasks[1].sent) + Len(tasks[1].pending) = tasks[1].pos
          /\ \A i \in 1..Len(tasks[1].sent) : tasks[1].sent[i].pos = i
    /\ tasks[1].posts <= tasks[1].pos

\* on a system-engine connection with a database, the statement and the
\* query of is_db_available were both answered 403 and a second probe request
\* is in flight
C12_SecondProbeInFlight ==
    /\ connection.is_system
    /\ connection.database
    /\ tasks[1].pc = "is_db_available"
    /\ tasks[1].status = FORBIDDEN
    /\ tasks[1].probes = 2
    /\ tasks[1].posts = 1

\* C13: on a 403 response, a connection with a database name has the
\* database's existence probed on its system-engine connection (itself when
\* it is one); when the probe finds no such database a database-not-found
\* error is raised, when it finds it, or when no database name is
\* configured, a programming error is raised.  A 403 never yields a RowSet.
C13_ForbiddenClassified ==
    (Failed(1) /\ tasks[1].status = FORBIDDEN) =>
        /\ state = "ERROR"
        /\ Len(row_sets) = tasks[1].pos - 1
        /\ IF connection.database
           THEN /\ tasks[1].probes >= 1
                /\ tasks[1].probe \in {"true", "false", "raised"}
                /\ tasks[1].probe = "false" =>
                      tasks[1].outcome = "FireboltDatabaseError" /\ tasks[1].origin = "cursor"
                /\ tasks[1].probe = "true" =>
                      tasks[1].outcome = "ProgrammingError" /\ tasks[1].origin = "cursor"
           ELSE /\ tasks[1].probes = 0
                /\ tasks[1].outcome = "ProgrammingError"
                /\ tasks[1].origin = "cursor"

\* on a user-engine connection with a database, the second statement was
\* answered 403, the probe found no database and database-not-found was raised
C13_DatabaseNotFound ==
    /\ Failed(1)
    /\ ~connection.is_system
    /\ connection.database
    /\ tasks[1].status = FORBIDDEN
    /\ tasks[1].pos = 2
    /\ tasks[1].probes = 1
    /\ tasks[1].probe = "false"
    /\ tasks[1].outcome = "FireboltDatabaseError"
    /\ Len(row_sets) = 1

\* C14: on a 503 or 404 response the engine's run status is probed (a system
\* engine counts as running without a request); when the engine is not
\* running an engine-not-running error is raised, when it is running the
\* HTTP failure of the original response is raised.  In both cases execute
\* raises and no RowSet is appended.
C14_UnavailableClassified ==
    (Failed(1) /\ tasks[1].status \in {SERVICE_UNAVAILABLE, NOT_FOUND}) =>
        /\ state = "ERROR"
        /\ Len(row_sets) = tasks[1].pos - 1
        /\ IF connection.is_system
           THEN /\ tasks[1].probes = 0
                /\ tasks[1].outcome = "HTTPStatusError"
                /\ tasks[1].origin = "cursor"
           ELSE /\ tasks[1].probes >= 1
                /\ tasks[1].probe \in {"true", "false", "raised"}
                /\ tasks[1].probe = "false" =>
                      tasks[1].outcome = "EngineNotRunningError" /\ tasks[1].origin = "cursor"
                /\ tasks[1].probe = "true" =>
                      tasks[1].outcome = "HTTPStatusError" /\ tasks[1].origin = "cursor"

\* a statement was answered 404, the engine's catalog row says it is not
\* running and engine-not-running was raised
C14_EngineNotRunning ==
    /\ Failed(1)
    /\ ~connection.is_system
    /\ tasks[1].status = NOT_FOUND
    /\ tasks[1].probes = 1
    /\ tasks[1].probe = "false"
    /\ tasks[1].outcome = "EngineNotRunningError"
    /\ row_sets = << >>

\* C15: a 500 response to a statement raises an operational error without
\* any probe request and leaves the cursor in state ERROR.
C15_ServerErrorOperational ==
    (Failed(1) /\ tasks[1].status = INTERNAL_SERVER_ERROR) =>
        /\ tasks[1].outcome = "OperationalError"
        /\ tasks[1].origin = "cursor"
        /\ tasks[1].probes = 0
        /\ state = "ERROR"
        /\ Len(row_sets) = tasks[1].pos - 1

\* on a user-engine connection with a database the first statement was
\* answered 500
C15_ServerErrorRaised ==
    /\ Failed(1)
    /\ ~connection.is_system
    /\ connection.database
    /\ tasks[1].status = INTERNAL_SERVER_ERROR
    /\ tasks[1].pos = 1
    /\ tasks[1].posts = 1
    /\ tasks[1].outcome = "OperationalError"

\* C16: for every statement of a synchronous execute a RowSet is decoded and
\* appended only if the response status is 2xx; a non-2xx status the
\* classifier has no rule for (here 400) raises the generic HTTP failure,
\* with no probe and no RowSet; a 400 answer to a SET validation probe raises
\* (the operational error) before the session map is touched.
C16_OnlySuccessDecoded ==
    [][/\ (tasks[1].pc = "query" /\ Len(row_sets') > Len(row_sets)) =>
              tasks'[1].status = HTTP_OK
       /\ (tasks[1].pc = "query" /\ tasks'[1].status = BAD_REQUEST) =>
              /\ tasks'[1].pc = "idle"
              /\ tasks'[1].outcome = "HTTPStatusError"
              /\ tasks'[1].origin = "cursor"
              /\ tasks'[1].probes = 0
              /\ row_sets' = row_sets
              /\ state' = "ERROR"
       /\ (tasks[1].pc = "validate_set" /\ tasks'[1].status = BAD_REQUEST) =>
              /\ tasks'[1].pc = "idle"
              /\ tasks'[1].outcome = "OperationalError"
              /\ set_parameters' = set_parameters
              /\ row_sets' = row_sets
              /\ state' = "ERROR"]_vars

\* the second statement of a synchronous execute was answered 400: the
\* generic HTTP failure was raised and only the first RowSet is held
C16_BadRequestRaised ==
    /\ Failed(1)
    /\ ~tasks[1].async_execution
    /\ tasks[1].status = BAD_REQUEST
    /\ tasks[1].outcome = "HTTPStatusError"
    /\ tasks[1].pos = 2
    /\ tasks[1].probes = 0
    /\ Len(row_sets) = 1
    /\ row_sets[1].has_columns

\* this step takes the answer, with status 200, to the async submission of
\* the one caller
AsyncAnswered ==
    /\ tasks[1].pc = "async_query"
    /\ tasks'[1].async_body # tasks[1].async_body
    /\ tasks'[1].status = HTTP_OK

\* C17: an execute with async_execution succeeds in its submission only if
\* the response body has a non-empty query_id; that query_id is then stored
\* on the cursor and is what execute returns, and no rows are decoded (the
\* statement's RowSet is the no-data sentinel).  When the body is empty or
\* the query_id is absent or empty, execute raises an operational error,
\* stores no query_id and leaves the state ERROR.  (A body that is no JSON
\* fails the same way, with the decoder's error.)
C17_AsyncSubmission ==
    /\ []((Succeeded(1) /\ tasks[1].async_execution) =>
            /\ \A i \in 1..Len(row_sets) :
                  ~row_sets[i].has_columns /\ row_sets[i].rowcount = -1
            /\ query_id # "" =>
                  /\ execute_result(1) = "qid"
                  /\ tasks[1].async_body = "qid")
    /\ [][AsyncAnswered =>
              LET body == tasks'[1].async_body IN
              IF body \notin {"empty", "absent", "", "not_json"}
              THEN /\ query_id' = body
                   /\ body = "qid"
                   /\ row_sets' = Append(row_sets,
                                         NoDataRowSet(tasks[1].call, tasks[1].pos))
              ELSE /\ tasks'[1].outcome = IF body = "not_json" THEN "JSONDecodeError"
                                          ELSE "OperationalError"
                   /\ tasks'[1].pc = "idle"
                   /\ query_id' = query_id
                   /\ query_id' = ""
                   /\ row_sets' = row_sets
                   /\ state' = "ERROR"]_vars

\* an async execute of a SET and a statement has returned the query id
C17_QueryIdReturned ==
    /\ Succeeded(1)
    /\ tasks[1].async_execution
    /\ tasks[1].nstmts = 2
    /\ query_id = "qid"
    /\ tasks[1].async_body = "qid"
    /\ execute_result(1) = "qid"
    /\ rowcount = -1
    /\ state = "DONE"

ApiErrors == {"OperationalError", "JSONDecodeError", "KeyError"}

\* the errors of a call whose request got no answer: the POST raised, or the
\* account id lookup before it
Unanswered == {"TransportError", "AccountLookupError"}

\* C18: get_status returns NOT_READY when the status endpoint answers with an
\* empty status text, the matching recognized status when the text is a
\* recognized status name (the name of a member of QueryStatus, NOT_READY
\* being one), and fails with an error, returning no value, when the text is
\* unrecognized, when the response has no status field (or is no JSON), or
\* when the endpoint answers 400.
C18_GetStatusMapping ==
    LET a == tasks[1].api IN
    (a.op = "status" /\ tasks[1].pc = "idle" /\ a.result \notin Unanswered) =>
        /\ a.status # 0
        /\ a.posts = 1
        /\ IF a.status = BAD_REQUEST \/ a.body \notin (QueryStatusNames \cup {""})
           THEN a.result \in ApiErrors
           ELSE IF a.body = ""
           THEN a.result = NOT_READY
           ELSE a.result = a.body /\ a.result \in QueryStatusNames

\* after an async submission get_status has returned a recognized status
C18_RecognizedStatusReturned ==
    /\ tasks[1].pc = "idle"
    /\ query_id = "qid"
    /\ tasks[1].api.op = "status"
    /\ tasks[1].api.status = HTTP_OK
    /\ tasks[1].api.body = "ENDED_SUCCESSFULLY"
    /\ tasks[1].api.result = "ENDED_SUCCESSFULLY"
    /\ state = "DONE"

\* the one caller is inside a cancel call: in the account id lookup before
\* its POST, or in the POST
InCancel ==
    \/ tasks[1].pc = "cancel"
    \/ tasks[1].pc = "api_account_id" /\ tasks[1].resume = "cancel"

\* C19: cancel issues exactly one POST, to the cancel endpoint, and no status
\* request (none at all only when the account id lookup that precedes the
\* POST on a system-engine connection raises); it does not look at the
\* response, and whatever the status of the answer it returns and leaves the
\* cursor's state, row-sets, row offset, stored query_id and session
\* parameter map unchanged.
C19_CancelFireAndForget ==
    /\ []((tasks[1].pc = "api_account_id" /\ tasks[1].resume = "cancel") =>
            /\ connection.is_system
            /\ tasks[1].sent = << >>
            /\ tasks[1].api.posts = 0
            /\ Len(tasks[1].pending) = 1
            /\ tasks[1].pending[1].path = "cancel")
    /\ [](tasks[1].pc = "cancel" =>
            /\ Len(tasks[1].sent) = 1
            /\ tasks[1].sent[1].path = "cancel"
            /\ tasks[1].pending = << >>
            /\ tasks[1].api.posts = 1)
    /\ []((tasks[1].api.op = "cancel" /\ tasks[1].pc = "idle") =>
            /\ tasks[1].api.posts =
                  IF tasks[1].api.result = "AccountLookupError" THEN 0 ELSE 1
            /\ tasks[1].api.result = "AccountLookupError" => connection.is_system
            /\ tasks[1].api.status # 0 => tasks[1].api.result = "None"
            /\ tasks[1].api.status = 0 => tasks[1].api.result \in Unanswered)
    /\ [][(InCancel \/ InCancel') =>
            UNCHANGED <<state, row_sets, next_set_idx, idx, query_id, set_parameters>>]_vars

\* after an async submission a cancel answered 500 has returned, the cursor
\* as the execute left it
C19_CancelAnswered500 ==
    /\ connection.is_system
    /\ tasks[1].pc = "idle"
    /\ tasks[1].api.op = "cancel"
    /\ tasks[1].api.posts = 1
    /\ tasks[1].api.status = INTERNAL_SERVER_ERROR
    /\ tasks[1].api.result = "None"
    /\ state = "DONE"
    /\ query_id = "qid"
    /\ Len(row_sets) = 2
    /\ "time_zone" \in DOMAIN set_parameters

\* the request is a server-side async submission of task frame tk
IsAsyncSubmission(tk, r) ==
    tk.async_execution /\ r.pos >= 1 /\ tk.queries[r.pos].kind # "set"

\* C20: every query POST to the root endpoint, SET validation probes
\* included, carries database iff the connection has a database name,
\* account_id iff the connection is a system-engine one, output_format equal
\* to the fixed JSON tag, every accumulated session SET parameter, and
\* async_execution=1 with advanced_mode=1 iff it is a server-side async
\* submission; status and cancel requests carry no session SET parameter and
\* no non-empty output_format.
C20_WireParameters ==
    LET tk == tasks[1] IN
    \A i \in 1..Len(tk.sent) :
        LET r == tk.sent[i] IN
        /\ "database" \in DOMAIN r.params <=> connection.database
        /\ "account_id" \in DOMAIN r.params <=> connection.is_system
        /\ IF r.path = ""
           THEN /\ "output_format" \in DOMAIN r.params
                /\ r.params["output_format"] = JSON_OUTPUT_FORMAT
                /\ \A n \in DOMAIN CommittedBefore(tk.sp0, tk.queries, r.pos - 1) :
                      n \in DOMAIN r.params
                /\ IsAsyncSubmission(tk, r) <=>
                      /\ {"async_execution", "advanced_mode"} \subseteq DOMAIN r.params
                      /\ r.params["async_execution"] = "1"
                      /\ r.params["advanced_mode"] = "1"
           ELSE /\ DOMAIN r.params \cap SetNames = {}
                /\ "output_format" \in DOMAIN r.params => r.params["output_format"] = ""

\* the validation probe of a SET directive is in flight and its request
\* carries no output_format
C20_SetProbeWithoutOutputFormat ==
    /\ tasks[1].pc = "validate_set"
    /\ tasks[1].pos = 2
    /\ tasks[1].sent[2].path = ""
    /\ tasks[1].sent[2].query = "select 1"
    /\ "time_zone" \in DOMAIN tasks[1].sent[2].params
    /\ "output_format" \notin DOMAIN tasks[1].sent[2].params
    /\ "output_format" \in DOMAIN tasks[1].sent[1].params

\* this step commits the SET directive whose validation probe was in flight
CommitsDirective ==
    /\ tasks[1].pc = "validate_set"
    /\ tasks'[1].status = HTTP_OK
    /\ set_parameters' =
          Merge(set_parameters,
                Single(tasks[1].queries[tasks[1].pos].name,
                       tasks[1].queries[tasks[1].pos].value))

\* C21: the session parameter map persists for the cursor's lifetime: the
\* reset at the start of execute/executemany, the failure of an execute,
\* fetches, nextset, get_status and cancel leave every entry as it is (a
\* statement that raises before its request is sent does so in the step that
\* commits the directive before it); the map changes only when a SET
\* directive passes validation (its entry is written) and when it is emptied
\* by an explicit flush or by closing the cursor.
C21_SessionParametersPersist ==
    [][/\ set_parameters' # set_parameters =>
            \/ CommitsDirective
            \/ tasks' = tasks /\ set_parameters' = EmptyDict
       /\ (tasks[1].pc = "idle" /\ tasks'[1].call # tasks[1].call) =>
            set_parameters' = set_parameters
       /\ (InFlight(1) /\ tasks'[1].pc = "idle" /\ tasks'[1].outcome # "ok") =>
            (set_parameters' = set_parameters \/ CommitsDirective)
       /\ tasks[1].pc \in {"read_locked", "status", "cancel"} =>
            (tasks' # tasks => set_parameters' = set_parameters)]_vars

\* the second execute of an open cursor failed and a fetch after it raised,
\* the parameter set by the first execute still in the map
C21_ParameterSurvivedFailure ==
    /\ ~closed[Self]
    /\ tasks[1].pc = "idle"
    /\ tasks[1].call = 2
    /\ tasks[1].outcome = "OperationalError"
    /\ tasks[1].pos = 1
    /\ state = "ERROR"
    /\ tasks[1].sp0 = Single("time_zone", "1")
    /\ set_parameters = Single("time_zone", "1")
    /\ last_fetch.op = "fetchall"
    /\ last_fetch.result = "DataError"

\* the POST of the one caller's statement has not been sent: _api_request
\* is in the account id lookup that precedes it, or that lookup has raised
NotPosted ==
    \/ tasks[1].pc = "account_id" /\ tasks[1].pending # << >>
    \/ /\ tasks[1].pc = "idle"
       /\ tasks[1].outcome = "AccountLookupError"
       /\ tasks[1].origin = "cursor"

\* C22: execute with skip_parsing sends the query text as it is, as exactly
\* one statement in exactly one POST to the root endpoint, whatever ";", "?"
\* or leading SET the text has (the POST follows the account id lookup on a
\* system-engine connection, and is not sent when that lookup raises): no
\* SET validation probe is issued, the session parameter map stays as it was
\* at the start of the call, and a call that succeeds leaves exactly one
\* RowSet.
C22_SkipParsingVerbatim ==
    LET tk == tasks[1] IN
    (tk.call >= 1 /\ tk.skip_parsing) =>
        /\ tk.nstmts = 1
        /\ tk.posts = IF NotPosted THEN 0 ELSE 1
        /\ NotPosted => connection.is_system
        /\ tk.pc # "validate_set"
        /\ tk.resume # "validate_set"
        /\ tk.pos >= 1
        /\ set_parameters = tk.sp0
        /\ InFlight(1) =>
              /\ Len(tk.queries) = 1
              /\ tk.queries[1].kind # "set"
              /\ Len(tk.sent) = tk.posts
              /\ Len(tk.sent) + Len(tk.pending) = 1
              /\ (tk.sent \o tk.pending)[1].path = ""
              /\ (tk.sent \o tk.pending)[1].query = tk.verbatim
        /\ Succeeded(1) =>
              /\ tk.posts = 1
              /\ Len(row_sets) = 1
              /\ row_sets[1].stmt = <<tk.call, 1>>
              /\ state = "DONE"

\* on a system-engine connection an execute with skip_parsing of a text with
\* a leading SET and a second statement has succeeded: one POST, one RowSet,
\* no session parameter
C22_SetTextSentAsIs ==
    /\ connection.is_system
    /\ Succeeded(1)
    /\ tasks[1].skip_parsing
    /\ tasks[1].verbatim = "SET time_zone = 1; sql"
    /\ tasks[1].posts = 1
    /\ Len(row_sets) = 1
    /\ row_sets[1].rowcount = 2
    /\ set_parameters = EmptyDict

\* C23: once the cursor is closed it stays closed, and every execute,
\* executemany, get_status, cancel and fetch called on it from then on fails
\* with a cursor-closed error, sends no request and leaves the cursor's
\* state, row-sets, offsets, query id and session parameters as they are.
C23_ClosedCursorRejects ==
    [][/\ closed[Self] => closed'[Self]
       /\ (closed[Self] /\ tasks[1].pc = "idle" /\ tasks'[1] # tasks[1]) =>
            /\ UNCHANGED <<state, row_sets, next_set_idx, idx, query_id,
                           set_parameters, fetch_vars, ncalls>>
            /\ tasks'[1].sent = << >>
            /\ \/ /\ tasks'[1].pc = "idle"
                  /\ tasks'[1].outcome = "CursorClosedError"
                  /\ tasks'[1].posts = 0
                  /\ tasks'[1].api = tasks[1].api
               \/ /\ tasks'[1].pc = "idle"
                  /\ tasks'[1].api.op \in {"status", "cancel"}
                  /\ tasks'[1].api.result = "CursorClosedError"
                  /\ tasks'[1].api.posts = 0
                  /\ tasks'[1].outcome = tasks[1].outcome
               \/ /\ tasks'[1].pc = "read_locked"
                  /\ tasks'[1].outcome = tasks[1].outcome
                  /\ tasks'[1].api = tasks[1].api
       /\ (closed[Self] /\ tasks[1].pc = "read_locked" /\ tasks'[1] # tasks[1]) =>
            /\ UNCHANGED <<state, row_sets, next_set_idx, idx, query_id,
                           set_parameters, delivered, ncalls>>
            /\ tasks'[1].pc = "idle"
            /\ last_fetch'.op = tasks[1].op
            /\ last_fetch'.result = "CursorClosedError"
       /\ (closed[Self] /\ tasks[1].pc = "idle" /\ last_fetch' # last_fetch) =>
            /\ UNCHANGED <<state, row_sets, next_set_idx, idx, query_id,
                           set_parameters, delivered, ncalls, readers, tasks>>
            /\ last_fetch'.result = "CursorClosedError"]_vars

\* a cursor closed after a successful execute: an execute, a get_status and a
\* fetch on it have failed, the RowSet of the execute still there
C23_AllRejectedAfterClose ==
    /\ closed[Self]
    /\ tasks[1].pc = "idle"
    /\ tasks[1].outcome = "CursorClosedError"
    /\ tasks[1].api.op = "status"
    /\ tasks[1].api.result = "CursorClosedError"
    /\ last_fetch.op = "fetchall"
    /\ last_fetch.result = "CursorClosedError"
    /\ state = "DONE"
    /\ Len(row_sets) = 1
    /\ row_sets[1].rowcount = 2
    /\ ncalls = 1

\* this step is a call of the named connection operation
Calls(op) == last_call' # last_call /\ last_call'.op = op

\* C24: commit() on an open connection does nothing: no request, the
\* connection's state and the registry as they were; on a closed connection it
\* fails with a connection-closed error; a closed connection never opens
\* again, so from then on no commit succeeds.
C24_CommitNoOpUnlessClosed ==
    [][/\ is_closed => is_closed'
       /\ Calls("commit") =>
            /\ UNCHANGED <<connection, closed, cursors, is_closed, set_parameters,
                           cursor_frame>>
            /\ last_call'.requests = 0
            /\ last_call'.result =
                  IF is_closed THEN "ConnectionClosedError" ELSE "None"]_vars

\* a commit has failed on a closed connection on which two cursors had been
\* created
C24_CommitOnClosedConnection ==
    /\ is_closed
    /\ last_call.op = "commit"
    /\ last_call.result = "ConnectionClosedError"
    /\ DOMAIN closed = {1, 2}
    /\ cursors = << >>

\* the registry without cursor c
Without(list, c) == SelectSeq(list, LAMBDA x : x # c)

\* C25: removing a registered cursor deletes exactly its entry and leaves
\* the others in place, removing a cursor that is not (or no longer)
\* registered raises nothing and leaves the registry as it is, whatever the
\* order in which callers remove the same or different cursors; the registry
\* never holds a cursor twice.
C25_RegistryRemoval ==
    /\ [](\A i, j \in 1..Len(cursors) : i # j => cursors[i] # cursors[j])
    /\ [][/\ Calls("_remove_cursor") =>
               /\ last_call'.result = "None"
               /\ cursors' = Without(cursors, last_call'.cursor)
               /\ UNCHANGED <<connection, closed, is_closed, set_parameters, cursor_frame>>
          /\ (closed' # closed /\ DOMAIN closed' = DOMAIN closed /\ ~is_closed') =>
               \E c \in DOMAIN closed :
                   /\ closed'[c]
                   /\ cursors' = Without(cursors, c)]_vars

\* of three registered cursors the second was removed, then removed again,
\* the first and the third still registered in their order
C25_RemovedTwice ==
    /\ last_call.op = "_remove_cursor"
    /\ last_call.cursor = 2
    /\ last_call.result = "None"
    /\ cursors = <<1, 3>>
    /\ closed = <<FALSE, TRUE, FALSE>>

\* a resolver call of this name has returned or raised
Resolved(op) == lookup.op = op /\ lookup.pc = "idle"

\* the requests a finished resolver call has sent: its catalog query and one
\* query for each database probe the classifier started, but for the last of
\* them when the account id lookup before it raised
CatalogRequests ==
    IF lookup.result = "AccountLookupError" THEN lookup.probes
    ELSE 1 + lookup.probes

\* C26: is_engine_running returns True at once, without a request, on a
\* system-engine connection; on a user-engine connection it asks the catalog
\* for the engine's row once, unless the account id lookup before the query
\* raises (any further request is a database probe of the error classifier,
\* and then no verdict is returned) and, when the catalog has a row for the
\* engine, returns True exactly when the status column of the first row is
\* the text "Running", compared with its case.
C26_RunStatusRule ==
    /\ (lookup.op = "is_engine_running" /\ connection.is_system) =>
          lookup.pc = "idle" /\ lookup.result = "True" /\ lookup.requests = 0
    /\ (lookup.op = "is_engine_running" /\ lookup.pc = "account_id") =>
          /\ lookup.requests = lookup.probes
          /\ lookup.probes = 0 <=> lookup.resume = "execute"
    /\ (Resolved("is_engine_running") /\ ~connection.is_system) =>
          /\ lookup.requests = CatalogRequests
          /\ lookup.result \in {"True", "False"} =>
                lookup.requests = 1 /\ lookup.probes = 0
          /\ lookup.result \in {"True", "False"} <=>
                 (lookup.columns /\ lookup.rows # << >>)
          /\ lookup.result = "True" <=>
                 (lookup.rows # << >> /\ lookup.rows[1][3] = "Running")

\* a user-engine connection whose engine is "running" in lower case is told
\* the engine is not running
C26_LowerCaseIsNotRunning ==
    /\ Resolved("is_engine_running")
    /\ ~connection.is_system
    /\ lookup.rows # << >>
    /\ lookup.rows[1][3] = "running"
    /\ lookup.result = "False"

\* C27: engine resolution sends its catalog SELECT once, after the account
\* id lookup of the system-engine cursor and not when that lookup raises
\* (any further request is a database probe of the error classifier, after
\* which the resolution raises the classifier's error); an answer with zero
\* rows raises the engine-not-found error, an answer with rows returns the
\* url, the status and the database of the first row.  Account resolution
\* makes one gateway request; a 404 raises the account-not-found error and
\* any other status than 200 an interface error.
C27_Resolution ==
    /\ (lookup.op = "_get_engine_url_status_db" /\ lookup.pc = "account_id") =>
          /\ lookup.requests = lookup.probes
          /\ lookup.probes = 0 <=> lookup.resume = "execute"
    /\ (lookup.op = "_get_engine_url_status_db" /\ lookup.pc \in {"execute", "fetchone"}) =>
          lookup.requests = 1 /\ lookup.probes = 0
    /\ Resolved("_get_engine_url_status_db") =>
          /\ lookup.requests = CatalogRequests
          /\ lookup.result \in {"row", "FireboltEngineError"} =>
                lookup.requests = 1 /\ lookup.probes = 0
          /\ lookup.probes > 0 =>
                lookup.result \in {"ProgrammingError", "FireboltDatabaseError",
                                   "OperationalError", "HTTPStatusError", "DataError",
                                   "TransportError", "AccountLookupError"}
          /\ (lookup.columns /\ lookup.rows = << >>) =>
                lookup.result = "FireboltEngineError"
          /\ lookup.rows # << >> =>
                /\ lookup.result = "row"
                /\ lookup.value = <<lookup.rows[1][1], lookup.rows[1][3],
                                    lookup.rows[1][2]>>
          /\ lookup.result = "row" => lookup.rows # << >>
    /\ Resolved("_get_system_engine_url") =>
          /\ lookup.requests = 1
          /\ lookup.status = 404 => lookup.result = "AccountNotFoundError"
          /\ (lookup.status \notin {0, 200, 404}) => lookup.result = "InterfaceError"
          /\ lookup.result = "url" => lookup.status = 200

\* the catalog answered with two different rows and the first one was returned
C27_FirstOfTwoRows ==
    /\ Resolved("_get_engine_url_status_db")
    /\ Len(lookup.rows) = 2
    /\ lookup.rows[1][3] # lookup.rows[2][3]
    /\ lookup.value = <<"url", lookup.rows[1][3], lookup.rows[1][2]>>

\* a step of the one caller that appends a RowSet: it is the RowSet of the
\* statement in flight, next in statement order, and the sentinel when that
\* statement is a SET directive or an async submission
AppendsInOrder ==
    Len(row_sets') = Len(row_sets) + 1 =>
        LET tk == tasks[1]
            rs == row_sets'[Len(row_sets')]
        IN  /\ InFlight(1)
            /\ Len(row_sets) = tk.pos - 1
            /\ rs.stmt = <<tk.call, tk.pos>>
            /\ (tk.queries[tk.pos].kind = "set" \/ tk.async_execution) =>
                   rs = NoDataRowSet(tk.call, tk.pos)
            /\ NoDataRowSet(tk.call, tk.pos).rowcount = -1
            /\ ~NoDataRowSet(tk.call, tk.pos).has_columns

\* after a successful execute of k statements the cursor holds k RowSets,
\* the i-th of the i-th statement
OnePerStatement ==
    Succeeded(1) =>
        /\ Len(row_sets) = tasks[1].nstmts
        /\ \A i \in 1..Len(row_sets) : row_sets[i].stmt = <<tasks[1].call, i>>

\* the step that completes a successful execute leaves the first RowSet
\* current; a nextset makes the next RowSet current when there is one and
\* the other fetches leave the current RowSet alone
ReachedByNextset ==
    /\ (InFlight(1) /\ Succeeded(1)' /\ tasks[1].nstmts >= 1) => next_set_idx' = 1
    /\ tasks[1].pc = "read_locked" =>
          IF tasks[1].op = "nextset" /\ next_set_idx < Len(row_sets)
          THEN next_set_idx' = next_set_idx + 1 /\ last_fetch'.result = "True"
          ELSE next_set_idx' = next_set_idx

\* the step completes an execute that consisted only of a SET directive
OnlyASetSucceeds ==
    /\ InFlight(1)
    /\ Succeeded(1)'
    /\ Len(tasks[1].queries) = 1
    /\ tasks[1].queries[1].kind = "set"

\* the call that returns in this step returns the number -1 (the query id an
\* async call returns is a string)
ReturnsMinusOne == ~tasks[1].async_execution /\ execute_result(1)' = -1

\* C28 as stated: one RowSet per statement in statement order, the sentinel
\* for a SET directive and for an async submission, a query after n leading
\* SETs reached by n nextset calls, and every execute that consists only of
\* a SET returns -1.
C28_OneRowSetPerStatement ==
    /\ []OnePerStatement
    /\ [][AppendsInOrder /\ ReachedByNextset]_vars
    /\ [][OnlyASetSucceeds => ReturnsMinusOne]_vars

\* C28 amended: as above, but an execute that consists only of a SET returns
\* -1 when it was not called with async_execution; called with it, it returns
\* the query id, which is empty.
C28_OneRowSetPerStatementSync ==
    /\ []OnePerStatement
    /\ [][AppendsInOrder /\ ReachedByNextset]_vars
    /\ [][OnlyASetSucceeds =>
            execute_result(1)' = IF tasks[1].async_execution THEN "" ELSE -1]_vars

\* "SET ...; SELECT ..." succeeded on a cursor without session parameters and
\* one nextset call made the RowSet of the SELECT, with its two rows, current
C28_QueryAfterOneSet ==
    /\ Succeeded(1)
    /\ tasks[1].sp0 = EmptyDict
    /\ set_parameters # EmptyDict
    /\ Len(row_sets) = 2
    /\ row_sets[1] = NoDataRowSet(tasks[1].call, 1)
    /\ next_set_idx = 2
    /\ last_fetch.op = "nextset"
    /\ last_fetch.result = "True"
    /\ rowcount = 2

\* this step ends an execute in flight with an exception
FailsInFlight == InFlight(1) /\ tasks'[1].pc = "idle" /\ tasks'[1].outcome # "ok"

\* this step starts an execute that sends a request
StartsInFlight == tasks[1].pc = "idle" /\ InFlight(1)'

\* C29: when a statement of an execute fails, the cursor ends in state ERROR
\* and the session map holds every SET directive the call committed before
\* the failing statement, over what it held before the call: nothing is
\* rolled back.  The next execute starts from that map, and each of its
\* requests carries the parameters of the map (unless the request names the
\* parameter itself).
C29_NoRollback ==
    /\ [][FailsInFlight =>
            /\ state' = "ERROR"
            /\ set_parameters' =
                  CommittedBefore(tasks[1].sp0, tasks[1].queries, tasks'[1].pos - 1)]_vars
    /\ [][StartsInFlight =>
            /\ tasks'[1].sp0 = set_parameters
            /\ set_parameters' = set_parameters]_vars
    /\ [](InFlight(1) =>
            \A i \in 1..Len(tasks[1].sent) :
                \A n \in DOMAIN tasks[1].sp0 \ ExplicitNames(tasks[1], i) :
                    n \in DOMAIN tasks[1].sent[i].params)

\* the second statement of a call was answered with a server error and the
\* parameter its first statement set is in the map, which was empty before
C29_SetKeptAfterServerError ==
    /\ Failed(1)
    /\ state = "ERROR"
    /\ tasks[1].pos = 2
    /\ tasks[1].status = INTERNAL_SERVER_ERROR
    /\ tasks[1].sp0 = EmptyDict
    /\ set_parameters = Single("time_zone", "1")

\* the rows the fetch that runs its body in this step returns
RowsReturned == IF \E u \in Tasks : Runs(u, RowFetches) THEN last_fetch'.rows ELSE << >>

\* C30: while an execute is between its reset and its completion the cursor
\* state is NONE and the cursor holds only RowSets of that call, those of
\* the statements before the one in flight; a fetch interleaved in that
\* window returns no row of another execute and no row of a statement whose
\* RowSet has not been appended.
C30_NoStaleRows ==
    /\ [](\A t \in Tasks : InFlight(t) =>
            /\ state = "NONE"
            /\ \A i \in 1..Len(row_sets) :
                  /\ row_sets[i].stmt[1] = tasks[t].call
                  /\ row_sets[i].stmt[2] < tasks[t].pos)
    /\ [][\A t \in Tasks : InFlight(t) =>
            \A k \in 1..Len(RowsReturned) :
                /\ RowsReturned[k][1] = tasks[t].call
                /\ RowsReturned[k][2] < tasks[t].pos]_vars

\* the second execute is in flight, started while the first one was, and a
\* fetch has returned rows of the first one, which completed after the reset
\* of the second
C30_RowsOfEarlierCallFetched ==
    /\ InFlight(1)
    /\ tasks[1].call = 2
    /\ tasks[2].call = 1
    /\ state = "DONE"
    /\ last_fetch.result = "rows"
    /\ last_fetch.rows # << >>
    /\ last_fetch.rows[1][1] = 1

\* this step ends a get_status call of the one caller
GetStatusEnds ==
    /\ \/ tasks[1].pc = "status"
       \/ tasks[1].pc = "api_account_id" /\ tasks[1].resume = "status"
    /\ tasks'[1].pc = "idle"

\* C31: a get_status call that fails because the endpoint answered 400, the
\* request raised or the response has no status field leaves the cursor in
\* state ERROR, and a fetch in state ERROR returns no row; a get_status call
\* that returns a status, or that fails because the status text is not
\* recognized, leaves the state as it was.  No get_status call touches the
\* row-sets, the current row-set or the row offset.
C31_GetStatusAndState ==
    /\ [][GetStatusEnds =>
            LET a == tasks'[1].api IN
            /\ (\/ a.status = BAD_REQUEST
                \/ a.result \in Unanswered
                \/ a.body = "absent") => state' = "ERROR"
            /\ (a.result \in QueryStatusNames \cup {NOT_READY, "KeyError"}) =>
                  state' = state
            /\ UNCHANGED <<row_sets, next_set_idx, idx>>]_vars
    /\ [][(Runs(1, RowFetches) /\ state = "ERROR") =>
            /\ last_fetch'.result \in {"DataError", "CursorClosedError"}
            /\ last_fetch'.rows = << >>]_vars

\* the rows of a successful execute were fetched, then the status endpoint
\* answered 400 and a second fetchall failed with no data, the rows still held
C31_RowsLostAfterBadRequest ==
    /\ ~closed[Self]
    /\ tasks[1].pc = "idle"
    /\ tasks[1].outcome = "ok"
    /\ tasks[1].api.op = "status"
    /\ tasks[1].api.status = BAD_REQUEST
    /\ tasks[1].api.result = "OperationalError"
    /\ state = "ERROR"
    /\ HasCurrent
    /\ CurrentRowSet.rowcount = 2
    /\ delivered = CurrentRowSet.rows
    /\ last_fetch.op = "fetchall"
    /\ last_fetch.result = "DataError"

\* statement q is a SET directive named async_execution
IsAsyncSet(q) == q.kind = "set" /\ q.name = "async_execution"

\* C32: a SET directive named async_execution is never sent and never
\* committed: no call is in flight at or past such a directive and the
\* session map never holds the name.  The step that reaches the directive
\* ends the call with the async-execution-unavailable error in state ERROR,
\* sends no request and commits nothing but the directive just validated
\* before it; a call whose first statement raises that error has sent no
\* request and leaves the session map as it was.
C32_AsyncSetRejectedLocally ==
    /\ [](/\ "async_execution" \notin DOMAIN set_parameters
          /\ \A t \in Tasks : InFlight(t) =>
                \A i \in 1..tasks[t].pos : ~IsAsyncSet(tasks[t].queries[i]))
    /\ [][(/\ InFlight(1)
           /\ tasks[1].pos < Len(tasks[1].queries)
           /\ IsAsyncSet(tasks[1].queries[tasks[1].pos + 1])
           /\ tasks'[1].pos = tasks[1].pos + 1) =>
              /\ tasks'[1].pc = "idle"
              /\ tasks'[1].outcome = "AsyncExecutionUnavailableError"
              /\ tasks'[1].posts = tasks[1].posts
              /\ state' = "ERROR"
              /\ set_parameters' =
                    CommittedBefore(tasks[1].sp0, tasks[1].queries, tasks[1].pos)]_vars
    /\ [][(/\ tasks[1].pc = "idle"
           /\ tasks'[1].call # tasks[1].call
           /\ tasks'[1].outcome = "AsyncExecutionUnavailableError") =>
              /\ tasks'[1].pos = 1
              /\ tasks'[1].posts = 0
              /\ state' = "ERROR"
              /\ set_parameters' = set_parameters]_vars

\* "SET time_zone=1; SET async_execution=1" without the async flag: one
\* request was sent, the call raised at the second statement and the map
\* holds the first directive only
C32_SecondDirectiveRejected ==
    /\ Failed(1)
    /\ ~tasks[1].async_execution
    /\ tasks[1].outcome = "AsyncExecutionUnavailableError"
    /\ tasks[1].nstmts = 2
    /\ tasks[1].pos = 2
    /\ tasks[1].posts = 1
    /\ state = "ERROR"
    /\ tasks[1].sp0 = EmptyDict
    /\ set_parameters = Single("time_zone", "1")

\* the parameters the cursor passes explicitly with the request of statement
\* p of the call in frame tk
Explicit(tk, p) ==
    IF tk.queries[p].kind = "set" THEN Single(tk.queries[p].name, tk.queries[p].value)
    ELSE IF tk.async_execution
    THEN [k \in {"async_execution", "advanced_mode", "output_format"} |->
            IF k = "output_format" THEN JSON_OUTPUT_FORMAT ELSE "1"]
    ELSE Single("output_format", JSON_OUTPUT_FORMAT)

\* the names the connection sets in every request
FromConnection ==
    (IF connection.database THEN {"database"} ELSE {})
        \cup (IF connection.is_system THEN {"account_id"} ELSE {})

\* C33: in every request of an execute the value of a parameter the cursor
\* passes explicitly is the explicit one, whatever the session map holds
\* under that name; database and account_id, when the connection sets them,
\* are the connection's, whatever the session map and the explicit
\* parameters hold; every other parameter of the session map is sent with
\* its session value; and the session map is not changed by building the
\* request: it holds what the directives validated so far have put in it.
C33_ExplicitOverSession ==
    InFlight(1) =>
        LET tk == tasks[1] IN
        /\ set_parameters = CommittedBefore(tk.sp0, tk.queries, tk.pos - 1)
        /\ \A i \in 1..Len(tk.sent) :
              LET params == tk.sent[i].params
                  session == CommittedBefore(tk.sp0, tk.queries, i - 1)
              IN  /\ \A n \in DOMAIN Explicit(tk, i) \ FromConnection :
                        n \in DOMAIN params /\ params[n] = Explicit(tk, i)[n]
                  /\ connection.database =>
                        "database" \in DOMAIN params /\ params["database"] = DatabaseName
                  /\ connection.is_system =>
                        "account_id" \in DOMAIN params /\ params["account_id"] = AccountId
                  /\ \A n \in DOMAIN session \ (DOMAIN Explicit(tk, i) \cup FromConnection) :
                        n \in DOMAIN params /\ params[n] = session[n]

\* the session holds output_format = CSV and the request of the query that
\* follows the directive carries the cursor's own output format
C33_OutputFormatOverridden ==
    /\ InFlight(1)
    /\ tasks[1].pos = 2
    /\ tasks[1].queries[2] = Literal
    /\ set_parameters = Single("output_format", "CSV")
    /\ tasks[1].sent[2].params["output_format"] = JSON_OUTPUT_FORMAT

\* the cursors of the probes task t is suspended in, outermost first
ProbesInFlight(t) ==
    IF \/ tasks[t].pc \in {"is_db_available", "is_engine_running", "engine_fetchone"}
       \/ tasks[t].pc = "account_id" /\ IsProbe(tasks[t].resume)
    THEN [n \in 1..tasks[t].probes |-> <<t, n>>]
    ELSE << >>

====
